---- MODULE Spec2Model ----
(***************************************************************************)
(* photo-triage: the reconciliation and transition engine of               *)
(* FileSystemService (src/src/zod/photo.ts, first variant, lines 33-921).  *)
(*                                                                         *)
(* A filename is a sequence of one-character strings, so that the filename *)
(* codec (split on '.', slice, the two regular expressions, parseInt) is   *)
(* computed on the characters as the code computes it.  A path             *)
(* `${folder}/${filename}` is the record [dir, name].  The content of a    *)
(* file is the path at which that content first existed.                   *)
(***************************************************************************)
EXTENDS Integers, Sequences, FiniteSets, TLC

(***************************************************************************)
(* Bounds of the model.                                                    *)
(***************************************************************************)
\* files present in the three folders of an initial state
MaxFiles == 2
\* thumbnail tasks chained on the queue and not yet settled
MaxJobs == 2
\* top-level calls (loadPhotos, a transition, completeAllPending) in one run
MaxOps == 3
\* failures of the platform in one run: a directory read, stat, copy or delete
\* that throws although its file is there, a decode that errors or times out
MaxFaults == 1
\* the longest filename given to the filename functions on their own
MaxNameLen == 6
\* the longest pending listing given to the latest-version resolution on its own
MaxListed == 4

(***************************************************************************)
(* Characters and filenames.                                               *)
(***************************************************************************)
Digits == {"0", "1", "2", "3", "4", "5", "6", "7", "8", "9"}

DigitVal(c) ==
  CASE c = "0" -> 0 [] c = "1" -> 1 [] c = "2" -> 2 [] c = "3" -> 3
    [] c = "4" -> 4 [] c = "5" -> 5 [] c = "6" -> 6 [] c = "7" -> 7
    [] c = "8" -> 8 [] c = "9" -> 9

\* String.prototype.toLowerCase on one character (the letters the model uses)
LowerChar(c) ==
  CASE c = "J" -> "j" [] c = "P" -> "p" [] c = "G" -> "g" [] c = "M" -> "m"
    [] c = "A" -> "a" [] c = "B" -> "b" [] OTHER -> c

KeepCase(s) == s
ToLowerCase(s) == [k \in 1..Len(s) |-> LowerChar(s[k])]

\* positions of character c in s
Positions(s, c) == {k \in 1..Len(s) : s[k] = c}

SetMax(S) == CHOOSE x \in S : \A y \in S : y <= x

\* s.slice(0, -n) for n >= 1
SliceOff(s, n) == IF Len(s) > n THEN SubSeq(s, 1, Len(s) - n) ELSE << >>

\* parseInt(digits, 10) of a non-empty run of decimal digits
RECURSIVE ParseInt(_)
ParseInt(ds) ==
  IF Len(ds) = 0 THEN 0
  ELSE 10 * ParseInt(SubSeq(ds, 1, Len(ds) - 1)) + DigitVal(ds[Len(ds)])

imageExtensions ==
  { <<"j","p","g">>, <<"j","p","e","g">>, <<"p","n","g">>, <<"g","i","f">>,
    <<"w","e","b","p">>, <<"h","e","i","c">>, <<"h","e","i","f">> }

videoExtensions ==
  { <<"m","p","4">>, <<"m","o","v">>, <<"a","v","i">>, <<"m","k","v">>,
    <<"w","e","b","m">>, <<"3","g","p">> }

\* filename.split('.') : the last part lower-cased when there are two or more
getFileExtension(filename) ==
  LET dots == Positions(filename, ".")
  IN IF dots = {} THEN << >>
     ELSE ToLowerCase(SubSeq(filename, SetMax(dots) + 1, Len(filename)))

\* filename.slice(0, -(ext.length + 1))
NameWithoutExt(filename) ==
  SliceOff(filename, Len(getFileExtension(filename)) + 1)

\* the position of the '~' of a trailing ~<digits> in s, or 0: the match of
\* /~(\d+)$/ (one or more digits after the '~', up to the end)
TildeOfSuffix(s) ==
  LET ts == Positions(s, "~")
  IN IF ts = {} THEN 0
     ELSE LET t == SetMax(ts)
          IN IF t < Len(s) /\ \A k \in (t + 1)..Len(s) : s[k] \in Digits
             THEN t ELSE 0

\* nameWithoutExt.match(/^(.+)~\d+$/) : group 1 must hold at least one character
getBaseFilename(filename) ==
  LET n == NameWithoutExt(filename)
      t == TildeOfSuffix(n)
  IN IF t >= 2 THEN SubSeq(n, 1, t - 1) ELSE n

\* nameWithoutExt.match(/~(\d+)$/) : parseInt of the digits, else 0
getVersionNumber(filename) ==
  LET n == NameWithoutExt(filename)
      t == TildeOfSuffix(n)
  IN IF t >= 1 THEN ParseInt(SubSeq(n, t + 1, Len(n))) ELSE 0

isSupportedFile(filename) ==
  getFileExtension(filename) \in (imageExtensions \cup videoExtensions)

isVideoFile(filename) == getFileExtension(filename) \in videoExtensions

(***************************************************************************)
(* Folders, paths, files.                                                  *)
(***************************************************************************)
cameraFolder == "DCIM/Camera"
pendingFolder == "Pictures/PhotoTriage/Pending"
completedFolder == "Pictures/PhotoTriage/Completed"
Folders == {cameraFolder, pendingFolder, completedFolder}

\* "a.jpg", "a~1.jpg", "a~2.jpg", "b.MP4" and the unsupported "n.t"
Names ==
  { <<"a",".","j","p","g">>,
    <<"a","~","1",".","j","p","g">>,
    <<"a","~","2",".","j","p","g">>,
    <<"b",".","M","P","4">>,
    <<"n",".","t">> }

MkPath(dir, name) == [dir |-> dir, name |-> name]
\* undefined (an absent optional field), and the empty string ''
Undefined == [dir |-> "undefined", name |-> << >>]
EmptyPath == [dir |-> "", name |-> << >>]
\* JavaScript truthiness of a path string
Truthy(p) == p # Undefined /\ p # EmptyPath

\* no file at a path
NoFile == [dir |-> "none", name |-> << >>]

Slots == {MkPath(d, n) : d \in Folders, n \in Names}

FileAt(f, p) == IF p \in Slots THEN f[p.dir][p.name] ELSE NoFile
Exists(f, p) == FileAt(f, p) # NoFile
Present(f, dir) == {n \in Names : f[dir][n] # NoFile}

Range(s) == {s[k] : k \in 1..Len(s)}
\* the orders in which a directory read may return the entries of a folder
Orders(S) ==
  {s \in [1..Cardinality(S) -> S] : \A i, j \in 1..Cardinality(S) : s[i] = s[j] => i = j}

\* Capacitor.convertFileSrc(Filesystem.getUri(path).uri)
WebUri(p) == [web |-> p]

\* canvas.toDataURL: the preview of what a uri shows
Preview(uri) == [data |-> uri]
NoThumbnail == [data |-> WebUri(Undefined)]

\* Filesystem.stat of an existing file: the size stands for the content, the
\* modification time for the file and its content
StatOf(f, p) == [size |-> FileAt(f, p), modifiedTime |-> [file |-> p, content |-> FileAt(f, p)]]
\* the default of getFileInfo: size 0, Date.now()
StatDefault == [size |-> NoFile, modifiedTime |-> [file |-> Undefined, content |-> NoFile]]

getFileInfoOfTheFile(f, p, statOk) == IF Exists(f, p) THEN StatOf(f, p) ELSE StatDefault
\* getFileInfo: stat, or the default when stat throws
getFileInfo(f, p, statOk) == IF statOk /\ Exists(f, p) THEN StatOf(f, p) ELSE StatDefault

readDirectoryUnfiltered(entries, readOk) == IF readOk THEN entries ELSE << >>
\* readDirectory: the supported names of what readdir returned, [] when it threw
readDirectory(entries, readOk) ==
  IF readOk THEN SelectSeq(entries, isSupportedFile) ELSE << >>

(***************************************************************************)
(* State.                                                                  *)
(***************************************************************************)
VARIABLES
  fs,              \* the three folders: fs[dir][name] is a content or NoFile
  store,           \* photoCollection: id -> Photo
  load,            \* the loadPhotos call in flight
  tr,              \* the setStatusTo... call in flight, with its result
  batch,           \* the completeAllPending call in flight, with its result
  jobs,            \* thumbnail tasks chained on the queue, oldest first
  thumbnailQueue,  \* the task whose promise this.thumbnailQueue is (0: a settled one)
  ops,             \* the number of top-level calls made so far
  faults,          \* the number of platform failures so far
  mediaPermissionsGranted,  \* main.tsx's promise: "pending", or "true"/"false" once resolved
  codec,           \* a filename and what the three filename functions returned for it
  resolve,         \* a pending listing, a photo, and the latest version found for it
  tr2,             \* a second setStatusTo... call in flight while the first one is
  load2            \* a second loadPhotos call in flight while the first one is

vars == <<fs, store, load, tr, batch, jobs, thumbnailQueue, ops, faults,
          mediaPermissionsGranted, codec, resolve, tr2, load2>>

Ids == {getBaseFilename(n) : n \in Names}

\* whether a platform call goes through: it may fail while faults remain
Luck == IF faults < MaxFaults THEN {TRUE, FALSE} ELSE {TRUE}
Spend(ok) == faults' = IF ok THEN faults ELSE faults + 1
Failures(oks) == Cardinality({k \in 1..Len(oks) : ~oks[k]})

StoreUpdateDropsOthers(st, id, rec) == (id :> rec)
\* photoCollection.update(id, fn) on a record that exists
StoreUpdate(st, id, rec) == [st EXCEPT ![id] = rec]
\* photoCollection.update(id, fn) on an id the collection does not hold throws
UpdateThrows(st, id) == id \notin DOMAIN st
\* photoCollection.insert(rec)
StoreInsert(st, rec) == (rec.id :> rec) @@ st

(***************************************************************************)
(* The thumbnail queue (generateThumbnail, lines 63-94).                   *)
(***************************************************************************)
JobIds == 1..MaxJobs
LiveIds == {jobs[k].id : k \in 1..Len(jobs)}
JobOf(id) == jobs[CHOOSE k \in 1..Len(jobs) : jobs[k].id = id]
FreshId == CHOOSE i \in JobIds : i \notin LiveIds /\ \A j \in JobIds : j \notin LiveIds => i <= j
QueueHasRoom == Len(jobs) < MaxJobs

\* the promise a new task is chained on: this.thumbnailQueue.then(task)
Unchained(tq) == 0
ChainedOn(tq) == tq

\* generateThumbnail(uri, ext, isVideo): the task chained, not yet started
NewJob(kind, photoId, uri, isVideo) ==
  [id |-> FreshId, kind |-> kind, photoId |-> photoId, uri |-> uri,
   isVideo |-> isVideo, waitsFor |-> ChainedOn(thumbnailQueue),
   state |-> "queued", outcome |-> "none", result |-> NoThumbnail]

\* this.thumbnailQueue is resultPromise.catch(() => {}) (line 91): it is fulfilled
\* once the task's promise has settled either way, and then the next task runs
QueueAlwaysFulfilled(id) == TRUE
QueueFulfilled(id) ==
  IF id = 0 \/ id \notin LiveIds THEN TRUE ELSE JobOf(id).state \in {"resolved", "rejected"}

\* the outcomes of a decode: onload/onseeked, onerror, and the 10 s timer of
\* generateVideoThumbnail
Outcomes(isVideo) == IF isVideo THEN {"ok", "error", "timeout"} ELSE {"ok", "error"}

\* how the task's promise settles (lines 71-85): the try/catch turns a rejected
\* decode into a promise resolved with undefined
TaskSettlesUncaught(uri, outcome) ==
  IF outcome = "ok" THEN [state |-> "resolved", result |-> Preview(uri)]
  ELSE [state |-> "rejected", result |-> NoThumbnail]
TaskSettles(uri, outcome) ==
  IF outcome = "ok" THEN [state |-> "resolved", result |-> Preview(uri)]
  ELSE [state |-> "resolved", result |-> NoThumbnail]

\* the task starts: the decode begins
StartJob ==
  \E k \in 1..Len(jobs) :
    /\ jobs[k].state = "queued"
    /\ QueueFulfilled(jobs[k].waitsFor)
    /\ jobs' = [jobs EXCEPT ![k].state = "running"]
    /\ UNCHANGED <<fs, store, load, tr, batch, thumbnailQueue, ops, faults,
               mediaPermissionsGranted, codec, resolve, tr2, load2>>

\* the decode ends and the task's promise resolves
SettleJob ==
  \E k \in 1..Len(jobs) :
    /\ jobs[k].state = "running"
    /\ \E o \in Outcomes(jobs[k].isVideo) :
         /\ o # "ok" => faults < MaxFaults
         /\ Spend(o = "ok")
         /\ jobs' = [jobs EXCEPT ![k].state = TaskSettles(jobs[k].uri, o).state,
                                 ![k].outcome = o,
                                 ![k].result = TaskSettles(jobs[k].uri, o).result]
    /\ UNCHANGED <<fs, store, load, tr, batch, thumbnailQueue, ops,
               mediaPermissionsGranted, codec, resolve, tr2, load2>>

\* the queue once task k's promise has been consumed
Without(js, k) ==
  LET gone == js[k].id
      rest == [i \in 1..(Len(js) - 1) |-> IF i < k THEN js[i] ELSE js[i + 1]]
  IN [i \in 1..Len(rest) |->
        IF rest[i].waitsFor = gone THEN [rest[i] EXCEPT !.waitsFor = 0] ELSE rest[i]]

\* generatedThumbnailForPhoto after its await (lines 185-189)
ThumbnailWriteBackAlways(st, photoId, thumbnail) ==
  StoreUpdate(st, photoId, [st[photoId] EXCEPT !.thumbnail = thumbnail])
ThumbnailWriteBackAsEnqueued(st, photoId, thumbnail) ==
  IF thumbnail = NoThumbnail THEN st
  ELSE StoreUpdate(st, photoId, [st[photoId] EXCEPT !.thumbnail = thumbnail,
                                                    !.status = "pending"])
ThumbnailWriteBack(st, photoId, thumbnail) ==
  IF thumbnail = NoThumbnail THEN st
  ELSE StoreUpdate(st, photoId, [st[photoId] EXCEPT !.thumbnail = thumbnail])

ContinueForPhoto ==
  \E k \in 1..Len(jobs) :
    /\ jobs[k].state = "resolved"
    /\ jobs[k].kind = "forPhoto"
    /\ jobs[k].photoId \in DOMAIN store
    /\ store' = ThumbnailWriteBack(store, jobs[k].photoId, jobs[k].result)
    /\ jobs' = Without(jobs, k)
    /\ thumbnailQueue' = IF thumbnailQueue = jobs[k].id THEN 0 ELSE thumbnailQueue
    /\ UNCHANGED <<fs, load, tr, batch, ops, faults,
               mediaPermissionsGranted, codec, resolve, tr2, load2>>

(***************************************************************************)
(* loadPhotos (lines 348-533), on the native platform.                     *)
(***************************************************************************)
\* alone: no transition has been in flight since the pass was called
IdleLoad == [pc |-> "idle", cam |-> << >>, pen |-> << >>, com |-> << >>, i |-> 0,
             info |-> StatDefault, job |-> 0, read |-> << >>, alone |-> TRUE]
\* photo: the argument; before: the collection and the folders when the call was
\* made; io: the platform calls made so far; success, error: the result
IdleTr == [pc |-> "idle", kind |-> "none", target |-> "none", photo |-> << >>,
           files |-> << >>, k |-> 0,
           io |-> << >>, success |-> FALSE, error |-> "", byUser |-> FALSE,
           before |-> << >>]
\* photos: the snapshot of line 875; outcomes: the id and result of each call made
IdleBatch == [pc |-> "idle", photos |-> << >>, i |-> 0, successCount |-> 0,
              failCount |-> 0, outcomes |-> << >>, success |-> FALSE, error |-> << >>,
              before |-> << >>]

NothingInFlight ==
  /\ load.pc = "idle" /\ load2.pc = "idle"
  /\ tr.pc = "idle" /\ tr2.pc = "idle"
  /\ batch.pc = "idle" /\ jobs = << >>

\* the answers of StorageAccess.checkPermissions and requestPermissions; "throws"
\* is a rejected call
PermissionAnswers == {"granted", "denied", "prompt", "throws"}

\* ensureMediaPermissions (lines 320-343) on the native platform
ensureMediaPermissions(check, request) ==
  IF check = "throws" THEN FALSE
  ELSE IF check = "granted" THEN TRUE
  ELSE IF request = "throws" THEN FALSE
  ELSE request = "granted"

\* main.tsx line 29: the module calls ensureMediaPermissions once, and the
\* promise resolves with its boolean
EnsureMediaPermissions ==
  /\ mediaPermissionsGranted = "pending"
  /\ \E check, request \in PermissionAnswers :
       mediaPermissionsGranted' =
         IF ensureMediaPermissions(check, request) THEN "true" ELSE "false"
  /\ UNCHANGED <<fs, store, load, tr, batch, jobs, thumbnailQueue, ops, faults, codec,
                 resolve, tr2, load2>>

\* use(mediaPermissionsGranted) (main.tsx line 32) suspends the component until
\* the promise has resolved, and does not look at the value
Mounted == mediaPermissionsGranted # "pending"

\* a top-level call is made: the component is mounted, nothing else is in flight
Call == Mounted /\ NothingInFlight /\ ops < MaxOps /\ ops' = ops + 1


\* lines 378-381
FilterCamera(cam, pen, com) ==
  LET keep(file) == file \notin Range(pen) /\ file \notin Range(com)
  IN SelectSeq(cam, keep)
\* lines 382-384
FilterPending(pen, com) ==
  LET keep(file) == file \notin Range(com)
  IN SelectSeq(pen, keep)

cameraFiles(l) == FilterCamera(l.cam, l.pen, l.com)
pendingFiles(l) == FilterPending(l.pen, l.com)
completedFiles(l) == l.com

\* where the three for-loops stand: the next file at or after index i of a loop
LoopFrom(l, phase, i) ==
  LET fromCompleted(j) ==
        IF j <= Len(completedFiles(l)) THEN <<"completed", j>> ELSE <<"done", 0>>
      fromPending(j) ==
        IF j <= Len(pendingFiles(l)) THEN <<"pending", j>> ELSE fromCompleted(1)
      fromCamera(j) ==
        IF j <= Len(cameraFiles(l)) THEN <<"camera", j>> ELSE fromPending(1)
  IN CASE phase = "camera" -> fromCamera(i)
       [] phase = "pending" -> fromPending(i)
       [] phase = "completed" -> fromCompleted(i)

AdvanceLoadByTwo(l, phase) ==
  LET pos == LoopFrom(l, phase, l.i + 2)
  IN [l EXCEPT !.pc = pos[1], !.i = pos[2], !.info = StatDefault, !.job = 0]
AdvanceLoad(l, phase) ==
  LET pos == LoopFrom(l, phase, l.i + 1)
  IN [l EXCEPT !.pc = pos[1], !.i = pos[2], !.info = StatDefault, !.job = 0]

\* the draft callbacks of the three loops (lines 407-410, 460-464, 502-506)
CameraDraft(rec, webUri, path) ==
  [rec EXCEPT !.status = "camera", !.uri = webUri, !.cameraPath = path]
PendingDraftKeepsStatus(rec, webUri, path) ==
  [rec EXCEPT !.uri = webUri, !.pendingPath = path]
PendingDraft(rec, webUri, path) ==
  [rec EXCEPT !.status = "pending", !.uri = webUri, !.pendingPath = path]
CompletedDraftKeepsStatus(rec, webUri, path) ==
  [rec EXCEPT !.uri = webUri, !.completedPath = path]
CompletedDraft(rec, webUri, path) ==
  [rec EXCEPT !.status = "completed", !.uri = webUri, !.completedPath = path]

\* the records inserted by the three loops (lines 427-439, 467-478, 512-524)
CameraPhoto(filename, webUri, path, info, thumbnail) ==
  [id |-> getBaseFilename(filename), originalName |-> filename, status |-> "camera",
   uri |-> webUri, cameraPath |-> path, pendingPath |-> Undefined,
   completedPath |-> Undefined, extension |-> getFileExtension(filename),
   isVideo |-> isVideoFile(filename), size |-> info.size,
   modifiedTime |-> info.modifiedTime, thumbnail |-> thumbnail]
PendingPhoto(filename, webUri, path, info) ==
  [id |-> getBaseFilename(filename), originalName |-> filename, status |-> "pending",
   uri |-> webUri, cameraPath |-> EmptyPath, pendingPath |-> path,
   completedPath |-> Undefined, extension |-> getFileExtension(filename),
   isVideo |-> isVideoFile(filename), size |-> info.size,
   modifiedTime |-> info.modifiedTime, thumbnail |-> NoThumbnail]
CompletedPhoto(filename, webUri, path, info, thumbnail) ==
  [id |-> getBaseFilename(filename), originalName |-> filename, status |-> "completed",
   uri |-> webUri, cameraPath |-> EmptyPath, pendingPath |-> Undefined,
   completedPath |-> path, extension |-> getFileExtension(filename),
   isVideo |-> isVideoFile(filename), size |-> info.size,
   modifiedTime |-> info.modifiedTime, thumbnail |-> thumbnail]

\* Filesystem.readdir(path): the entries it returned, or that it threw
Readdir(path, entries, ok) == [path |-> path, entries |-> entries, ok |-> ok]

\* lines 369-388: the three directory reads and the two filters
ReadFolders(alone) ==
  /\ \E okC, okP, okD \in Luck :
       /\ Failures(<<okC, okP, okD>>) <= MaxFaults - faults
       /\ faults' = faults + Failures(<<okC, okP, okD>>)
       /\ \E eC \in Orders(Present(fs, cameraFolder)) :
          \E eP \in Orders(Present(fs, pendingFolder)) :
          \E eD \in Orders(Present(fs, completedFolder)) :
            LET l == [IdleLoad EXCEPT !.alone = alone,
                                      !.read = <<Readdir(cameraFolder, eC, okC),
                                                Readdir(pendingFolder, eP, okP),
                                                Readdir(completedFolder, eD, okD)>>,
                                      !.cam = readDirectory(eC, okC),
                                      !.pen = readDirectory(eP, okP),
                                      !.com = readDirectory(eD, okD)]
                pos == LoopFrom(l, "camera", 1)
            IN load' = [l EXCEPT !.pc = pos[1], !.i = pos[2]]

LoadStart ==
  /\ Call
  /\ ReadFolders(TRUE)
  /\ UNCHANGED <<fs, store, tr, batch, jobs, thumbnailQueue,
               mediaPermissionsGranted, codec, resolve, tr2, load2>>

\* one iteration of the camera loop up to its update, or up to the await of
\* generateThumbnail (lines 391-424)
LoadCameraFile ==
  /\ load.pc = "camera"
  /\ LET filename == cameraFiles(load)[load.i]
         baseName == getBaseFilename(filename)
         cameraPath == MkPath(cameraFolder, filename)
         webUri == WebUri(cameraPath)
     IN \E statOk \in Luck :
          LET fileInfo == getFileInfo(fs, cameraPath, statOk)
          IN /\ Spend(statOk)
             /\ IF baseName \in DOMAIN store
                THEN /\ store' = StoreUpdate(store, baseName,
                                             CameraDraft(store[baseName], webUri, cameraPath))
                     /\ load' = AdvanceLoad(load, "camera")
                     /\ UNCHANGED <<jobs, thumbnailQueue>>
                ELSE /\ QueueHasRoom
                     /\ LET job == NewJob("await", baseName, webUri, isVideoFile(filename))
                        IN /\ jobs' = Append(jobs, job)
                           /\ thumbnailQueue' = job.id
                           /\ load' = [load EXCEPT !.pc = "cameraWait", !.info = fileInfo,
                                                   !.job = job.id]
                     /\ UNCHANGED store
  /\ UNCHANGED <<fs, tr, batch, ops,
               mediaPermissionsGranted, codec, resolve, tr2, load2>>

\* the camera loop's insert, once the awaited thumbnail is there (lines 427-439)
LoadCameraInsert ==
  /\ load.pc = "cameraWait"
  /\ \E k \in 1..Len(jobs) :
       /\ jobs[k].id = load.job
       /\ jobs[k].state = "resolved"
       /\ LET filename == cameraFiles(load)[load.i]
              cameraPath == MkPath(cameraFolder, filename)
          IN store' = StoreInsert(store, CameraPhoto(filename, WebUri(cameraPath), cameraPath,
                                                     load.info, jobs[k].result))
       /\ jobs' = Without(jobs, k)
       /\ thumbnailQueue' = IF thumbnailQueue = jobs[k].id THEN 0 ELSE thumbnailQueue
  /\ load' = AdvanceLoad(load, "camera")
  /\ UNCHANGED <<fs, tr, batch, ops, faults,
               mediaPermissionsGranted, codec, resolve, tr2, load2>>

\* one iteration of the pending loop (lines 444-483)
LoadPendingFile ==
  /\ load.pc = "pending"
  /\ QueueHasRoom
  /\ LET filename == pendingFiles(load)[load.i]
         baseName == getBaseFilename(filename)
         pendingPath == MkPath(pendingFolder, filename)
         webUri == WebUri(pendingPath)
     IN \E statOk \in Luck :
          LET fileInfo == getFileInfo(fs, pendingPath, statOk)
              st == IF baseName \in DOMAIN store
                    THEN StoreUpdate(store, baseName,
                                     PendingDraft(store[baseName], webUri, pendingPath))
                    ELSE StoreInsert(store, PendingPhoto(filename, webUri, pendingPath, fileInfo))
              photo == st[baseName]
              job == NewJob("forPhoto", photo.id, photo.uri, photo.isVideo)
          IN /\ Spend(statOk)
             /\ store' = st
             /\ jobs' = Append(jobs, job)
             /\ thumbnailQueue' = job.id
  /\ load' = AdvanceLoad(load, "pending")
  /\ UNCHANGED <<fs, tr, batch, ops,
               mediaPermissionsGranted, codec, resolve, tr2, load2>>

\* one iteration of the completed loop up to its update or its await (486-509)
LoadCompletedFile ==
  /\ load.pc = "completed"
  /\ LET filename == completedFiles(load)[load.i]
         baseName == getBaseFilename(filename)
         completedPath == MkPath(completedFolder, filename)
         webUri == WebUri(completedPath)
     IN \E statOk \in Luck :
          LET fileInfo == getFileInfo(fs, completedPath, statOk)
          IN /\ Spend(statOk)
             /\ IF baseName \in DOMAIN store
                THEN /\ store' = StoreUpdate(store, baseName,
                                             CompletedDraft(store[baseName], webUri, completedPath))
                     /\ load' = AdvanceLoad(load, "completed")
                     /\ UNCHANGED <<jobs, thumbnailQueue>>
                ELSE /\ QueueHasRoom
                     /\ LET job == NewJob("await", baseName, webUri, isVideoFile(filename))
                        IN /\ jobs' = Append(jobs, job)
                           /\ thumbnailQueue' = job.id
                           /\ load' = [load EXCEPT !.pc = "completedWait", !.info = fileInfo,
                                                   !.job = job.id]
                     /\ UNCHANGED store
  /\ UNCHANGED <<fs, tr, batch, ops,
               mediaPermissionsGranted, codec, resolve, tr2, load2>>

\* the completed loop's insert (lines 512-524)
LoadCompletedInsert ==
  /\ load.pc = "completedWait"
  /\ \E k \in 1..Len(jobs) :
       /\ jobs[k].id = load.job
       /\ jobs[k].state = "resolved"
       /\ LET filename == completedFiles(load)[load.i]
              completedPath == MkPath(completedFolder, filename)
          IN store' = StoreInsert(store, CompletedPhoto(filename, WebUri(completedPath),
                                                        completedPath, load.info, jobs[k].result))
       /\ jobs' = Without(jobs, k)
       /\ thumbnailQueue' = IF thumbnailQueue = jobs[k].id THEN 0 ELSE thumbnailQueue
  /\ load' = AdvanceLoad(load, "completed")
  /\ UNCHANGED <<fs, tr, batch, ops, faults,
               mediaPermissionsGranted, codec, resolve, tr2, load2>>

\* the ids that the filenames of the three listings of a pass give
IdsListed(l) == {getBaseFilename(n) : n \in Range(l.cam) \cup Range(l.pen) \cup Range(l.com)}

LoadReturnDroppingUnlisted ==
  /\ load.pc = "done"
  /\ load' = IdleLoad
  /\ store' = [id \in DOMAIN store \cap IdsListed(load) |-> store[id]]
  /\ UNCHANGED <<fs, tr, batch, jobs, thumbnailQueue, ops, faults,
               mediaPermissionsGranted, codec, resolve, tr2, load2>>
\* loadPhotos returns
LoadReturn ==
  /\ load.pc = "done"
  /\ load' = IdleLoad
  /\ UNCHANGED <<fs, store, tr, batch, jobs, thumbnailQueue, ops, faults,
               mediaPermissionsGranted, codec, resolve, tr2, load2>>

(***************************************************************************)
(* The transitions (lines 611-868).                                        *)
(***************************************************************************)
\* the draft callbacks of the optimistic updates
\* lines 631-635 and 649-653
ToPendingDraftKeepsCompletedPath(rec, pendingPath) ==
  [rec EXCEPT !.status = "pending", !.pendingPath = pendingPath]
ToPendingDraft(rec, pendingPath) ==
  [rec EXCEPT !.status = "pending", !.pendingPath = pendingPath, !.completedPath = Undefined]
\* lines 692-695
CompletedToCameraDraft(rec) ==
  [rec EXCEPT !.status = "camera", !.completedPath = Undefined]
\* lines 713-716
PendingToCameraDraft(rec) ==
  [rec EXCEPT !.status = "camera", !.pendingPath = Undefined]
\* lines 758-761
CameraToCompletedDraft(rec, completedPath) ==
  [rec EXCEPT !.status = "completed", !.completedPath = completedPath]
\* lines 794-798
PendingToCompletedDraft(rec, completedPath) ==
  [rec EXCEPT !.status = "completed", !.completedPath = completedPath,
              !.pendingPath = Undefined]
\* the draft callback of the catch blocks (lines 662-666, 729-733, 772-776, 859-863)
RollbackDraftStatusOnly(rec, photo) ==
  [rec EXCEPT !.status = photo.status]
RollbackDraftKeepsStatus(rec, photo) ==
  [rec EXCEPT !.pendingPath = photo.pendingPath, !.completedPath = photo.completedPath]
RollbackDraft(rec, photo) ==
  [rec EXCEPT !.status = photo.status, !.pendingPath = photo.pendingPath,
              !.completedPath = photo.completedPath]

Rollback(st, photo) == StoreUpdate(st, photo.id, RollbackDraft(st[photo.id], photo))

\* lines 806-816 and 836-840: the files of the listing that belong to the photo
MatchesPhoto(filename, photo) ==
  /\ getBaseFilename(filename) = getBaseFilename(photo.originalName)
  /\ getFileExtension(filename) = photo.extension

Versions(files, photo) ==
  LET match(filename) == MatchesPhoto(filename, photo)
  IN SelectSeq(files, match)

\* versions.reduce((prev, current) => current.version > prev.version ? current : prev)
RECURSIVE ReduceLatest(_, _, _)
ReduceLatest(versions, prev, k) ==
  IF k > Len(versions) THEN prev
  ELSE ReduceLatest(versions,
                    IF getVersionNumber(versions[k]) > getVersionNumber(prev)
                    THEN versions[k] ELSE prev,
                    k + 1)

\* lines 819-825
LatestFilename(files, photo) ==
  LET versions == Versions(files, photo)
  IN IF Len(versions) > 0 THEN ReduceLatest(versions, versions[1], 2)
     ELSE photo.originalName

\* the first check of each transition (lines 613, 678, 746)
NeverAlreadyThere(photo, target) == FALSE
AlreadyThere(photo, target) == photo.status = target

\* the branch a call takes, in the order the code tests the status
Kind(photo, target) ==
  IF AlreadyThere(photo, target) THEN "same"
  ELSE CASE target = "pending" ->
              IF photo.status = "completed" THEN "completedToPending" ELSE "cameraToPending"
         [] target = "camera" ->
              IF photo.status = "completed" THEN "completedToCamera"
              ELSE IF photo.status = "pending" THEN "pendingToCamera" ELSE "invalid"
         [] target = "completed" ->
              IF photo.status = "camera" THEN "cameraToCompleted"
              ELSE IF photo.status = "pending" THEN "pendingToCompleted" ELSE "invalid"

\* the path field a branch needs before it touches anything
\* (lines 619, 684, 705; setStatusToCompleted checks none)
MissingPath(photo, kind) ==
  CASE kind \in {"completedToPending", "completedToCamera"} -> ~Truthy(photo.completedPath)
    [] kind = "pendingToCamera" -> ~Truthy(photo.pendingPath)
    [] OTHER -> FALSE

MissingPathError(kind) ==
  IF kind = "pendingToCamera" THEN "No pending path available"
  ELSE "No completed path available"

\* lines 725-726 and 851-856
InvalidError(target) ==
  IF target = "camera" THEN "Invalid photo status for revert"
  ELSE "Invalid photo status for completion"

OptimisticNotYet(rec, photo, kind) == rec
\* the record after the optimistic update of a branch
Optimistic(rec, photo, kind) ==
  CASE kind \in {"cameraToPending", "completedToPending"} ->
         ToPendingDraft(rec, MkPath(pendingFolder, photo.originalName))
    [] kind = "completedToCamera" -> CompletedToCameraDraft(rec)
    [] kind = "pendingToCamera" -> PendingToCameraDraft(rec)
    [] kind = "cameraToCompleted" ->
         CameraToCompletedDraft(rec, MkPath(completedFolder, photo.originalName))
    [] kind = "pendingToCompleted" ->
         PendingToCompletedDraft(rec, MkPath(completedFolder, photo.originalName))

\* the first file operation of a transition
FirstStep(kind) ==
  CASE kind \in {"cameraToPending", "completedToPending", "cameraToCompleted"} -> "copy"
    [] kind \in {"completedToCamera", "pendingToCamera"} -> "delete"
    [] kind = "pendingToCompleted" -> "list"

Returned(t, success, error) ==
  [t EXCEPT !.pc = "returned", !.success = success, !.error = error]

\* a call of setStatusToPending / setStatusToCamera / setStatusToCompleted up to
\* its first await
Invoke(photo, target, byUser) ==
  LET kind == Kind(photo, target)
      t == [IdleTr EXCEPT !.photo = photo, !.kind = kind, !.target = target,
                          !.byUser = byUser,
                          !.before = [store |-> store, fs |-> fs]]
  IN IF kind = "same"
     THEN tr' = Returned(t, TRUE, "") /\ UNCHANGED store
     ELSE IF kind = "invalid"
     THEN tr' = Returned(t, FALSE, InvalidError(target)) /\ UNCHANGED store
     ELSE IF MissingPath(photo, kind)
     THEN tr' = Returned(t, FALSE, MissingPathError(kind)) /\ UNCHANGED store
     ELSE IF UpdateThrows(store, photo.id)
     THEN \* the optimistic update throws, and so does the update of the catch block
          tr' = [t EXCEPT !.pc = "raised"] /\ UNCHANGED store
     ELSE /\ store' = StoreUpdate(store, photo.id, Optimistic(store[photo.id], photo, kind))
          /\ tr' = [t EXCEPT !.pc = FirstStep(kind),
                              !.k = IF FirstStep(kind) = "delete" THEN 1 ELSE 0]

\* copyFile(from, to) of each transition (lines 638, 656, 764, 833)
CopySource(t) ==
  CASE t.kind = "cameraToPending" -> t.photo.cameraPath
    [] t.kind = "completedToPending" -> t.photo.completedPath
    [] t.kind = "cameraToCompleted" -> t.photo.cameraPath
    [] t.kind = "pendingToCompleted" ->
         MkPath(pendingFolder, LatestFilename(t.files, t.photo))
CopyTargetInCamera(t) == MkPath(cameraFolder, t.photo.originalName)
CopyTarget(t) ==
  CASE t.kind \in {"cameraToPending", "completedToPending"} ->
         MkPath(pendingFolder, t.photo.originalName)
    [] t.kind \in {"cameraToCompleted", "pendingToCompleted"} ->
         MkPath(completedFolder, t.photo.originalName)

\* the files a transition deletes, in order (lines 639, 698, 719, 836-845)
DeleteList(t) ==
  CASE t.kind \in {"completedToPending", "completedToCamera"} -> <<t.photo.completedPath>>
    [] t.kind = "pendingToCamera" -> <<t.photo.pendingPath>>
    [] t.kind = "pendingToCompleted" ->
         LET vs == Versions(t.files, t.photo)
         IN [j \in 1..Len(vs) |-> MkPath(pendingFolder, vs[j])]
    [] OTHER -> << >>

\* Filesystem.copy and Filesystem.deleteFile
CopyInFs(f, from, to) == [f EXCEPT ![to.dir][to.name] = FileAt(f, from)]
DeleteInFs(f, p) == [f EXCEPT ![p.dir][p.name] = NoFile]

IoEntry(call, from, to, ok) == [call |-> call, from |-> from, to |-> to, ok |-> ok]

\* String(error) in the catch blocks; the inner catch of lines 770-783 prefixes it
ErrorText(t, what) ==
  IF t.kind = "cameraToCompleted" THEN "Failed to complete from MediaStore: Error: " \o what
  ELSE "Error: " \o what

\* the catch block: roll the record back and return the failure
FailWithoutRollback(t, what) ==
  /\ store' = store
  /\ tr' = Returned(t, FALSE, ErrorText(t, what))
Fail(t, what) ==
  /\ store' = Rollback(store, t.photo)
  /\ tr' = Returned(t, FALSE, ErrorText(t, what))

\* after the copy, and after the k-th delete
AfterCopy(t) ==
  IF Len(DeleteList(t)) > 0 THEN [t EXCEPT !.pc = "delete", !.k = 1]
  ELSE Returned(t, TRUE, "")
AfterDelete(t) ==
  IF t.k < Len(DeleteList(t)) THEN [t EXCEPT !.k = t.k + 1]
  ELSE Returned(t, TRUE, "")

\* line 801: the pending folder is read
TrList ==
  /\ tr.pc = "list"
  /\ \E ok \in Luck : \E entries \in Orders(Present(fs, pendingFolder)) :
       /\ Spend(ok)
       /\ tr' = [tr EXCEPT !.pc = "copy", !.files = readDirectory(entries, ok),
                           !.io = Append(tr.io, IoEntry("readdir", MkPath(pendingFolder, << >>),
                                                        Undefined, ok))]
  /\ UNCHANGED <<fs, store, load, batch, jobs, thumbnailQueue, ops,
               mediaPermissionsGranted, codec, resolve, tr2, load2>>

\* scanFile (lines 562-582): whether the call rejects when getUri or
\* StorageAccess.scanFile throws; the catch block logs the error and returns
ScanThrowsUncaught(scanOk) == ~scanOk
ScanThrows(scanOk) == FALSE

\* copyFile: Filesystem.copy, then scanFile(to)
TrCopy ==
  /\ tr.pc = "copy"
  /\ LET from == CopySource(tr)
         to == CopyTarget(tr)
     IN \E ioOk, scanOk \in Luck :
          LET ok == ioOk /\ Exists(fs, from)
              t == [tr EXCEPT !.io = tr.io \o <<IoEntry("copy", from, to, ok)>>
                                     \o (IF ok THEN <<IoEntry("scan", to, Undefined, scanOk)>>
                                         ELSE << >>)]
          IN /\ ~ok => scanOk
             /\ Failures(<<ioOk, scanOk>>) <= MaxFaults - faults
             /\ faults' = faults + Failures(<<ioOk, scanOk>>)
             /\ IF ok /\ ~ScanThrows(scanOk)
                THEN /\ fs' = CopyInFs(fs, from, to)
                     /\ tr' = AfterCopy(t)
                     /\ UNCHANGED store
                ELSE IF ok
                THEN /\ fs' = CopyInFs(fs, from, to)
                     /\ Fail(t, "scan failed")
                ELSE /\ Fail(t, "copy failed")
                     /\ UNCHANGED fs
  /\ UNCHANGED <<load, batch, jobs, thumbnailQueue, ops,
               mediaPermissionsGranted, codec, resolve, tr2, load2>>

\* deleteFile: Filesystem.deleteFile, then scanFile(path)
TrDelete ==
  /\ tr.pc = "delete"
  /\ LET path == DeleteList(tr)[tr.k]
     IN \E ioOk, scanOk \in Luck :
          LET ok == ioOk /\ Exists(fs, path)
              t == [tr EXCEPT !.io = tr.io \o <<IoEntry("delete", path, Undefined, ok)>>
                                     \o (IF ok THEN <<IoEntry("scan", path, Undefined, scanOk)>>
                                         ELSE << >>)]
          IN /\ ~ok => scanOk
             /\ Failures(<<ioOk, scanOk>>) <= MaxFaults - faults
             /\ faults' = faults + Failures(<<ioOk, scanOk>>)
             /\ IF ok /\ ~ScanThrows(scanOk)
                THEN /\ fs' = DeleteInFs(fs, path)
                     /\ tr' = AfterDelete(t)
                     /\ UNCHANGED store
                ELSE IF ok
                THEN /\ fs' = DeleteInFs(fs, path)
                     /\ Fail(t, "scan failed")
                ELSE /\ Fail(t, "delete failed")
                     /\ UNCHANGED fs
  /\ UNCHANGED <<load, batch, jobs, thumbnailQueue, ops,
               mediaPermissionsGranted, codec, resolve, tr2, load2>>

\* the photos a caller can pass: a record of the collection, such a record
\* without the optional path field of its status, or a photo the collection
\* does not hold
WithoutOwnPath(photo) ==
  CASE photo.status = "pending" -> [photo EXCEPT !.pendingPath = Undefined]
    [] photo.status = "completed" -> [photo EXCEPT !.completedPath = Undefined]
    [] OTHER -> photo
ForeignPhotos ==
  {CameraPhoto(n, WebUri(MkPath(cameraFolder, n)), MkPath(cameraFolder, n), StatDefault,
               NoThumbnail) : n \in {m \in Names : getBaseFilename(m) \notin DOMAIN store}}
Arguments ==
  {store[id] : id \in DOMAIN store} \cup {WithoutOwnPath(store[id]) : id \in DOMAIN store}
    \cup ForeignPhotos

\* a caller invokes a transition
SetStatusToPending ==
  /\ Call
  /\ \E photo \in Arguments : Invoke(photo, "pending", TRUE)
  /\ UNCHANGED <<fs, load, batch, jobs, thumbnailQueue, faults,
               mediaPermissionsGranted, codec, resolve, tr2, load2>>

SetStatusToCamera ==
  /\ Call
  /\ \E photo \in Arguments : Invoke(photo, "camera", TRUE)
  /\ UNCHANGED <<fs, load, batch, jobs, thumbnailQueue, faults,
               mediaPermissionsGranted, codec, resolve, tr2, load2>>

SetStatusToCompleted ==
  /\ Call
  /\ \E photo \in Arguments : Invoke(photo, "completed", TRUE)
  /\ UNCHANGED <<fs, load, batch, jobs, thumbnailQueue, faults,
               mediaPermissionsGranted, codec, resolve, tr2, load2>>

\* the result, or the rejection, reaches the caller
TrReturn ==
  /\ tr.pc \in {"returned", "raised"}
  /\ tr.byUser
  /\ tr' = IdleTr
  /\ UNCHANGED <<fs, store, load, batch, jobs, thumbnailQueue, ops, faults,
               mediaPermissionsGranted, codec, resolve, tr2, load2>>

(***************************************************************************)
(* completeAllPending (lines 873-910).                                     *)
(***************************************************************************)
\* photoCollection.toArray.filter((p) => p.status === 'pending')
PendingIds(st) == {id \in DOMAIN st : st[id].status = "pending"}

\* lines 898-905
BatchResult(b) ==
  IF b.failCount > 0
  THEN [b EXCEPT !.pc = "returned", !.success = FALSE,
                 !.error = <<"Completed", b.successCount, "photos, failed", b.failCount>>]
  ELSE [b EXCEPT !.pc = "returned", !.success = TRUE]

CompleteAllPending ==
  /\ Call
  /\ \E order \in Orders(PendingIds(store)) :
       LET b == [IdleBatch EXCEPT !.pc = "loop", !.i = 1, !.before = store,
                                  !.photos = [k \in 1..Len(order) |-> store[order[k]]]]
       IN batch' = IF Len(order) = 0 THEN BatchResult(b) ELSE b
  /\ UNCHANGED <<fs, store, load, tr, jobs, thumbnailQueue, faults,
               mediaPermissionsGranted, codec, resolve, tr2, load2>>

\* line 887: the next photo's transition is called
BatchCall ==
  /\ batch.pc = "loop"
  /\ tr.pc = "idle"
  /\ Invoke(batch.photos[batch.i], "completed", FALSE)
  /\ UNCHANGED <<fs, load, batch, jobs, thumbnailQueue, ops, faults,
               mediaPermissionsGranted, codec, resolve, tr2, load2>>

\* lines 888-896: the result of a call is counted
CountedAsSuccess(b, id, success) ==
  [b EXCEPT !.i = b.i + 1,
            !.successCount = @ + 1,
            !.outcomes = Append(@, [id |-> id, success |-> success])]
Counted(b, id, success) ==
  [b EXCEPT !.i = b.i + 1,
            !.successCount = IF success THEN @ + 1 ELSE @,
            !.failCount = IF success THEN @ ELSE @ + 1,
            !.outcomes = Append(@, [id |-> id, success |-> success])]

BatchCount ==
  /\ batch.pc = "loop"
  /\ tr.pc = "returned"
  /\ ~tr.byUser
  /\ LET b == Counted(batch, tr.photo.id, tr.success)
     IN batch' = IF b.i > Len(b.photos) THEN BatchResult(b) ELSE b
  /\ tr' = IdleTr
  /\ UNCHANGED <<fs, store, load, jobs, thumbnailQueue, ops, faults,
               mediaPermissionsGranted, codec, resolve, tr2, load2>>

BatchReturn ==
  /\ batch.pc = "returned"
  /\ batch' = IdleBatch
  /\ UNCHANGED <<fs, store, load, tr, jobs, thumbnailQueue, ops, faults,
               mediaPermissionsGranted, codec, resolve, tr2, load2>>

(***************************************************************************)
(* Initial states: an empty collection and at most MaxFiles files, each    *)
(* holding its own content.                                                *)
(***************************************************************************)
\* no latest-version resolution has been made
IdleResolve == [files |-> << >>, originalName |-> << >>, done |-> FALSE, latest |-> << >>]

\* no filename function has been called
IdleCodec == [filename |-> << >>, done |-> {}, ext |-> << >>, base |-> << >>, version |-> 0]

InitialFolders(S) ==
  [d \in Folders |-> [n \in Names |-> IF MkPath(d, n) \in S THEN MkPath(d, n) ELSE NoFile]]

Init ==
  /\ \E S \in SUBSET Slots : Cardinality(S) <= MaxFiles /\ fs = InitialFolders(S)
  /\ store = << >>
  /\ load = IdleLoad
  /\ tr = IdleTr
  /\ batch = IdleBatch
  /\ jobs = << >>
  /\ thumbnailQueue = 0
  /\ ops = 0
  /\ faults = 0
  /\ mediaPermissionsGranted = "pending"
  /\ codec = IdleCodec
  /\ resolve = IdleResolve
  /\ tr2 = IdleTr
  /\ load2 = IdleLoad

Next ==
  \/ EnsureMediaPermissions
  \/ LoadStart \/ LoadCameraFile \/ LoadCameraInsert \/ LoadPendingFile
  \/ LoadCompletedFile \/ LoadCompletedInsert \/ LoadReturn
  \/ StartJob \/ SettleJob \/ ContinueForPhoto
  \/ SetStatusToPending \/ SetStatusToCamera \/ SetStatusToCompleted
  \/ TrList \/ TrCopy \/ TrDelete \/ TrReturn
  \/ CompleteAllPending \/ BatchCall \/ BatchCount \/ BatchReturn

Spec == Init /\ [][Next]_vars

(***************************************************************************)
(* The filename functions on their own: any filename over a small alphabet *)
(* is given to getFileExtension, getBaseFilename and getVersionNumber.     *)
(***************************************************************************)
Alphabet == {"a", "~", "1", "2", ".", "J"}
Filenames == UNION {[1..n -> Alphabet] : n \in 0..MaxNameLen}

CodecInit ==
  /\ fs = InitialFolders({})
  /\ store = << >>
  /\ load = IdleLoad
  /\ tr = IdleTr
  /\ batch = IdleBatch
  /\ jobs = << >>
  /\ thumbnailQueue = 0
  /\ ops = 0
  /\ faults = 0
  /\ mediaPermissionsGranted = "pending"
  /\ \E f \in Filenames : codec = [IdleCodec EXCEPT !.filename = f]
  /\ resolve = IdleResolve
  /\ tr2 = IdleTr
  /\ load2 = IdleLoad

CallGetFileExtension ==
  /\ "getFileExtension" \notin codec.done
  /\ codec' = [codec EXCEPT !.ext = getFileExtension(codec.filename),
                            !.done = @ \cup {"getFileExtension"}]
  /\ UNCHANGED <<fs, store, load, tr, batch, jobs, thumbnailQueue, ops, faults,
                 mediaPermissionsGranted, resolve, tr2, load2>>

CallGetBaseFilename ==
  /\ "getBaseFilename" \notin codec.done
  /\ codec' = [codec EXCEPT !.base = getBaseFilename(codec.filename),
                            !.done = @ \cup {"getBaseFilename"}]
  /\ UNCHANGED <<fs, store, load, tr, batch, jobs, thumbnailQueue, ops, faults,
                 mediaPermissionsGranted, resolve, tr2, load2>>

CallGetVersionNumber ==
  /\ "getVersionNumber" \notin codec.done
  /\ codec' = [codec EXCEPT !.version = getVersionNumber(codec.filename),
                            !.done = @ \cup {"getVersionNumber"}]
  /\ UNCHANGED <<fs, store, load, tr, batch, jobs, thumbnailQueue, ops, faults,
                 mediaPermissionsGranted, resolve, tr2, load2>>

CodecNext == CallGetFileExtension \/ CallGetBaseFilename \/ CallGetVersionNumber

CodecSpec == CodecInit /\ [][CodecNext]_vars

(***************************************************************************)
(* Latest-version resolution on its own (lines 803-827): a listing of the  *)
(* pending folder, in any order, and a pending photo.                      *)
(***************************************************************************)
\* "a.jpg", "a~0.jpg", "a~1.jpg", "a~01.jpg", "a.JPG" and "b.jpg"
PendingNames ==
  { <<"a",".","j","p","g">>,
    <<"a","~","0",".","j","p","g">>,
    <<"a","~","1",".","j","p","g">>,
    <<"a","~","0","1",".","j","p","g">>,
    <<"a",".","J","P","G">>,
    <<"b",".","j","p","g">> }

Listings == UNION {Orders(S) : S \in {T \in SUBSET PendingNames : Cardinality(T) <= MaxListed}}

ResolveInit ==
  /\ fs = InitialFolders({})
  /\ store = << >>
  /\ load = IdleLoad
  /\ tr = IdleTr
  /\ batch = IdleBatch
  /\ jobs = << >>
  /\ thumbnailQueue = 0
  /\ ops = 0
  /\ faults = 0
  /\ mediaPermissionsGranted = "pending"
  /\ codec = IdleCodec
  /\ \E files \in Listings : \E name \in {<<"a",".","j","p","g">>, <<"b",".","j","p","g">>} :
       resolve = [IdleResolve EXCEPT !.files = files, !.originalName = name]
  /\ tr2 = IdleTr
  /\ load2 = IdleLoad

\* lines 803-825 for the photo that the pending loop builds from originalName
ResolveLatest ==
  /\ ~resolve.done
  /\ LET path == MkPath(pendingFolder, resolve.originalName)
         photo == PendingPhoto(resolve.originalName, WebUri(path), path, StatDefault)
     IN resolve' = [resolve EXCEPT !.done = TRUE,
                                   !.latest = LatestFilename(resolve.files, photo)]
  /\ UNCHANGED <<fs, store, load, tr, batch, jobs, thumbnailQueue, ops, faults,
                 mediaPermissionsGranted, codec, tr2, load2>>

ResolveNext == ResolveLatest

ResolveSpec == ResolveInit /\ [][ResolveNext]_vars

(***************************************************************************)
(* Reconciliation.                                                         *)
(***************************************************************************)
ListedIds(files) == {getBaseFilename(f) : f \in Range(files)}

\* the highest-precedence folder whose listing holds a file of the id
TopStatus(l, id) ==
  IF id \in ListedIds(l.com) THEN "completed"
  ELSE IF id \in ListedIds(l.pen) THEN "pending" ELSE "camera"

FolderOf(status) ==
  CASE status = "camera" -> cameraFolder
    [] status = "pending" -> pendingFolder
    [] status = "completed" -> completedFolder
ListingOf(l, status) ==
  CASE status = "camera" -> l.cam
    [] status = "pending" -> l.pen
    [] status = "completed" -> l.com
PathField(rec, status) ==
  CASE status = "camera" -> rec.cameraPath
    [] status = "pending" -> rec.pendingPath
    [] status = "completed" -> rec.completedPath

\* C1: when a reconciliation pass that ran alone has processed its three
\* listings, every id derived from a listed filename has a record whose status
\* is the highest-precedence folder (completed > pending > camera) that lists
\* a file of that id, and whose uri and matching path field name a listed file
\* of that id in that folder.
C1_ReconciledByPrecedence ==
  load.pc = "done" =>
    \A id \in ListedIds(load.cam) \cup ListedIds(load.pen) \cup ListedIds(load.com) :
      /\ id \in DOMAIN store
      /\ LET top == TopStatus(load, id)
             p == PathField(store[id], top)
         IN /\ store[id].status = top
            /\ p.dir = FolderOf(top)
            /\ p.name \in Range(ListingOf(load, top))
            /\ getBaseFilename(p.name) = id
            /\ store[id].uri = WebUri(p)

\* a pass over a collection that earlier calls filled has ended, with an id
\* listed in the camera folder and in the completed folder
C1_Witness ==
  /\ load.pc = "done"
  /\ ops = 3
  /\ \E id \in ListedIds(load.cam) \cap ListedIds(load.com) :
       id \in DOMAIN store /\ store[id].status = "completed"

(***************************************************************************)
(* Transitions.                                                            *)
(***************************************************************************)
\* a copy or delete of the call in flight has thrown
SomeFileOperationFailed(t) ==
  \E k \in 1..Len(t.io) : t.io[k].call \in {"copy", "delete"} /\ ~t.io[k].ok

SameTriple(a, b) ==
  /\ a.status = b.status
  /\ a.pendingPath = b.pendingPath
  /\ a.completedPath = b.completedPath

\* C2: a transition called on a record whose stored fields equal the passed
\* photo, and of which a copy or a delete failed, returns {success: false}
\* with a non-empty error, the record's status, pendingPath and completedPath
\* being what they were before the call.
C2_RollbackOnFailure ==
  (/\ tr.pc = "returned"
   /\ SomeFileOperationFailed(tr)
   /\ tr.before.store[tr.photo.id] = tr.photo)
  => /\ SameTriple(store[tr.photo.id], tr.before.store[tr.photo.id])
     /\ ~tr.success
     /\ tr.error # ""

\* the copy of a pending -> completed transition failed and the call returned
C2_Witness ==
  /\ tr.pc = "returned"
  /\ tr.kind = "pendingToCompleted"
  /\ \E k \in 1..Len(tr.io) : tr.io[k].call = "copy" /\ ~tr.io[k].ok
  /\ store[tr.photo.id].status = "pending"
  /\ Truthy(store[tr.photo.id].pendingPath)

\* C3: a transition called on a record whose status is already the target
\* returns {success: true}, makes no directory read, copy, delete or
\* media-index call, and leaves the collection (and the folders) as they were.
C3_SameStatusIsNoOp ==
  (tr.pc = "returned" /\ tr.photo.status = tr.target)
  => /\ tr.success
     /\ tr.io = << >>
     /\ store = tr.before.store
     /\ fs = tr.before.fs

\* setStatusToCompleted returned for a record that was completed already
C3_Witness ==
  /\ tr.pc = "returned"
  /\ tr.target = "completed"
  /\ tr.photo.status = "completed"
  /\ tr.success

\* the files of a folder that share the photo's id and extension
Siblings(folder, photo) ==
  {n \in Names : /\ folder[n] # NoFile
                 /\ getBaseFilename(n) = photo.id
                 /\ getFileExtension(n) = photo.extension}

GreatestVersion(S) == {n \in S : \A m \in S : getVersionNumber(m) <= getVersionNumber(n)}

\* C4: when a pending -> completed transition returns success, the completed
\* folder holds, under the record's originalName, the content of a pending file
\* of greatest version among those sharing the record's id and extension, and
\* no file sharing that id and extension remains in the pending folder.
C4_CompletedHoldsLatestAndPendingIsCleared ==
  (tr.pc = "returned" /\ tr.kind = "pendingToCompleted" /\ tr.success)
  => LET before == tr.before.fs[pendingFolder]
     IN /\ \E n \in GreatestVersion(Siblings(before, tr.photo)) :
             fs[completedFolder][tr.photo.originalName] = before[n]
        /\ Siblings(fs[pendingFolder], tr.photo) = {}

\* the same, for the calls whose read of the pending folder did not throw
C4_WhenTheListingSucceeded ==
  (/\ tr.pc = "returned" /\ tr.kind = "pendingToCompleted" /\ tr.success
   /\ \A k \in 1..Len(tr.io) : tr.io[k].call = "readdir" => tr.io[k].ok)
  => LET before == tr.before.fs[pendingFolder]
     IN /\ \E n \in GreatestVersion(Siblings(before, tr.photo)) :
             fs[completedFolder][tr.photo.originalName] = before[n]
        /\ Siblings(fs[pendingFolder], tr.photo) = {}

\* a name whose part before the extension ends in ~<digits>
HasVersionSuffix(name) == TildeOfSuffix(NameWithoutExt(name)) > 0

\* C5: no file that a transition copies into the completed folder has a name
\* carrying a ~<digits> version suffix.
C5_NoVersionSuffixInCompleted ==
  \A k \in 1..Len(tr.io) :
    (tr.io[k].call = "copy" /\ tr.io[k].ok /\ tr.io[k].to.dir = completedFolder)
    => ~HasVersionSuffix(tr.io[k].to.name)

(***************************************************************************)
(* completeAllPending.                                                     *)
(***************************************************************************)
Successes(b) == {k \in 1..Len(b.outcomes) : b.outcomes[k].success}
FailedCalls(b) == {k \in 1..Len(b.outcomes) : ~b.outcomes[k].success}

\* C6: completeAllPending calls the pending -> completed transition exactly
\* once on every record that was pending when it started and on no other; it
\* returns {success: true} iff none of the calls failed, and otherwise
\* {success: false} with an error that gives the number of successes and the
\* number of failures, which add up to the number of calls.
C6_BatchAttemptsEachOnceAndCounts ==
  batch.pc = "returned" =>
    /\ {batch.outcomes[k].id : k \in 1..Len(batch.outcomes)} = PendingIds(batch.before)
    /\ Len(batch.outcomes) = Cardinality(PendingIds(batch.before))
    /\ batch.success <=> FailedCalls(batch) = {}
    /\ ~batch.success =>
         /\ batch.error = <<"Completed", Cardinality(Successes(batch)),
                            "photos, failed", Cardinality(FailedCalls(batch))>>
         /\ batch.error[2] + batch.error[4] = Len(batch.outcomes)

\* a batch over two pending records returned with one success and one failure
C6_Witness ==
  /\ batch.pc = "returned"
  /\ ~batch.success
  /\ Len(batch.outcomes) = 2
  /\ batch.error[2] = 1
  /\ batch.error[4] = 1

\* C7: the records whose call in the batch succeeded have status completed, and
\* those whose call failed have status pending with the pendingPath and
\* completedPath they had before the batch, while the batch goes on and when it
\* has returned.
C7_NoBatchRollback ==
  batch.pc \in {"loop", "returned"} =>
    \A k \in 1..Len(batch.outcomes) :
      LET o == batch.outcomes[k]
          rec == store[o.id]
          was == batch.before[o.id]
      IN IF o.success THEN rec.status = "completed"
         ELSE /\ rec.status = "pending"
              /\ rec.pendingPath = was.pendingPath
              /\ rec.completedPath = was.completedPath

\* a batch has returned in which the second call failed after the first succeeded
C7_Witness ==
  /\ batch.pc = "returned"
  /\ Len(batch.outcomes) = 2
  /\ batch.outcomes[1].success
  /\ ~batch.outcomes[2].success
  /\ store[batch.outcomes[1].id].status = "completed"
  /\ store[batch.outcomes[2].id].status = "pending"

(***************************************************************************)
(* The thumbnail queue.                                                    *)
(***************************************************************************)
Settled(j) == j.state \in {"resolved", "rejected"}
Running == {k \in 1..Len(jobs) : jobs[k].state = "running"}

\* C8: at most one thumbnail decode is running at any time, and a job that has
\* started (is running or has settled) was enqueued after jobs that have all
\* settled: no job is running or settled behind an unsettled one.
C8_ThumbnailJobsAreSerialised ==
  /\ Cardinality(Running) <= 1
  /\ \A k \in 1..Len(jobs) :
       jobs[k].state # "queued" => \A j \in 1..(k - 1) : Settled(jobs[j])

\* a decode is running while a later job waits behind it
C8_Witness ==
  /\ Len(jobs) = 2
  /\ jobs[1].state = "running"
  /\ jobs[2].state = "queued"
  /\ jobs[2].waitsFor = jobs[1].id

\* C9: a thumbnail job whose decode failed or timed out resolves with undefined
\* and never rejects, and the job enqueued behind it can start as soon as every
\* earlier job has settled.
C9_FailedJobResolvesUndefined ==
  \A k \in 1..Len(jobs) :
    /\ jobs[k].state # "rejected"
    /\ jobs[k].outcome \in {"error", "timeout"} =>
         /\ jobs[k].state = "resolved"
         /\ jobs[k].result = NoThumbnail
    /\ (jobs[k].state = "queued" /\ \A j \in 1..(k - 1) : Settled(jobs[j]))
         => QueueFulfilled(jobs[k].waitsFor)

\* the job behind a failed one has run and produced a preview
C9_Witness ==
  /\ Len(jobs) = 2
  /\ jobs[1].outcome \in {"error", "timeout"}
  /\ jobs[1].state = "resolved"
  /\ jobs[1].result = NoThumbnail
  /\ jobs[2].outcome = "ok"
  /\ jobs[2].state = "resolved"
  /\ jobs[2].result # NoThumbnail

\* C10: when generatedThumbnailForPhoto continues after its job, it sets the
\* record's thumbnail to the preview if the job produced one, and leaves the
\* store as it is if the job produced none.
C10_WritesThumbnailIffPreview ==
  [][\A k \in 1..Len(jobs) :
       (/\ jobs[k].kind = "forPhoto"
        /\ jobs[k].state = "resolved"
        /\ jobs' = Without(jobs, k))
       => IF jobs[k].result = NoThumbnail
          THEN store' = store
          ELSE /\ DOMAIN store' = DOMAIN store
               /\ store'[jobs[k].photoId] =
                    [store[jobs[k].photoId] EXCEPT !.thumbnail = jobs[k].result]
               /\ \A id \in DOMAIN store \ {jobs[k].photoId} : store'[id] = store[id]]_vars

\* both jobs of a load of two pending files are over: one record has its
\* preview, the other, whose decode failed, has none
C10_Witness ==
  /\ jobs = << >>
  /\ load.pc = "idle"
  /\ faults = 1
  /\ \E a, b \in DOMAIN store :
       /\ a # b
       /\ store[a].status = "pending" /\ store[a].cameraPath = EmptyPath
       /\ store[b].status = "pending" /\ store[b].cameraPath = EmptyPath
       /\ store[a].thumbnail = Preview(store[a].uri)
       /\ store[b].thumbnail = NoThumbnail

(***************************************************************************)
(* Permissions.                                                            *)
(***************************************************************************)
\* C11: when ensureMediaPermissions has answered that access is not granted
\* (the check or the request answered denied or prompt, or threw), no folder
\* has been listed and no transition has made a file call.
C11_NotGrantedBlocksScanAndTransitions ==
  mediaPermissionsGranted = "false" =>
    /\ load.pc = "idle"
    /\ tr.io = << >>

(***************************************************************************)
(* Results of the calls.                                                   *)
(***************************************************************************)
\* C12: no call of a transition and no call of completeAllPending ends by
\* raising to its caller: each ends by returning a result.
C12_CallsNeverRaise ==
  tr.pc # "raised" /\ batch.pc # "raised"

\* the call was made from a status whose path field the photo lacks
RequiredPathMissing(t) ==
  CASE t.kind \in {"pendingToCompleted", "pendingToCamera"} -> ~Truthy(t.photo.pendingPath)
    [] t.kind \in {"completedToPending", "completedToCamera"} -> ~Truthy(t.photo.completedPath)
    [] OTHER -> FALSE

\* C13: a transition called from pending with no pendingPath, or from completed
\* with no completedPath, makes no file call, leaves the record store as it
\* was, and returns a failure.
C13_MissingPathIsRejectedBeforeAnyIO ==
  (tr.pc # "idle" /\ RequiredPathMissing(tr)) =>
    /\ tr.io = << >>
    /\ store = tr.before.store
    /\ tr.pc = "returned" /\ ~tr.success

(***************************************************************************)
(* Records at rest.                                                        *)
(***************************************************************************)
\* C14: when no operation is in flight, the uri of every record is the web uri
\* of the path held in the path field that matches the record's status.
C14_UriFollowsStatus ==
  NothingInFlight =>
    \A id \in DOMAIN store :
      store[id].uri = WebUri(PathField(store[id], store[id].status))

\* C15: when no operation is in flight, the path field that matches a record's
\* status holds a non-empty path.
C15_OwnPathIsPopulated ==
  NothingInFlight =>
    \A id \in DOMAIN store : Truthy(PathField(store[id], store[id].status))

\* C16: every record is stored under its own id, so no two records share one,
\* and no step removes a record or changes a record's id: the set of ids only
\* grows.
C16_IdsAreUniqueStableAndKept ==
  /\ [](\A id \in DOMAIN store : store[id].id = id)
  /\ [][\A id \in DOMAIN store :
          id \in DOMAIN store' /\ store'[id].id = store[id].id]_vars

\* two records have gone through three calls, and one of them was completed
C16_Witness ==
  /\ NothingInFlight
  /\ ops = 3
  /\ Cardinality(DOMAIN store) = 2
  /\ \E id \in DOMAIN store :
       store[id].status = "completed" /\ store[id].thumbnail # NoThumbnail

(***************************************************************************)
(* The filename functions.                                                 *)
(***************************************************************************)
AllThreeCalled == codec.done = {"getFileExtension", "getBaseFilename", "getVersionNumber"}

\* C17: getBaseFilename and getVersionNumber agree on the version suffix: when
\* the part of the filename before the extension ends in ~<digits>,
\* getVersionNumber returns the number of those digits and getBaseFilename returns
\* what precedes the '~', also when nothing precedes it; otherwise
\* getVersionNumber returns 0 and getBaseFilename returns the whole part.
C17_BaseAndVersionAgree ==
  AllThreeCalled =>
    LET n == NameWithoutExt(codec.filename)
        t == TildeOfSuffix(n)
    IN IF t > 0
       THEN /\ codec.version = ParseInt(SubSeq(n, t + 1, Len(n)))
            /\ codec.base = SubSeq(n, 1, t - 1)
       ELSE /\ codec.version = 0
            /\ codec.base = n

\* C18: for a filename without a '.', getFileExtension returns the empty
\* string, getBaseFilename returns the whole name, or the whole name without its
\* trailing ~<digits>, and getVersionNumber returns the number of that suffix,
\* or 0 when there is none.
C18_NamesWithoutExtension ==
  (AllThreeCalled /\ "." \notin Range(codec.filename)) =>
    LET f == codec.filename
        t == TildeOfSuffix(f)
    IN /\ codec.ext = << >>
       /\ IF t > 0
          THEN /\ codec.base \in {SubSeq(f, 1, t - 1)} \cup (IF t = 1 THEN {f} ELSE {})
               /\ codec.version = ParseInt(SubSeq(f, t + 1, Len(f)))
          ELSE /\ codec.base = f
               /\ codec.version = 0

\* s ends in ~<digits> from position j on, with at least one digit
SuffixAt(s, j) ==
  /\ j < Len(s)
  /\ s[j] = "~"
  /\ \A k \in (j + 1)..Len(s) : s[k] \in Digits

\* C19: for a filename <base>.<ext> or <base>~<N>.<ext> whose base is not empty
\* and where the '.' before <ext> is the only one, getFileExtension returns
\* <ext> in lower case, getBaseFilename returns <base> and getVersionNumber
\* returns N; without a ~<N> suffix getVersionNumber returns 0 and
\* getBaseFilename returns all that precedes the '.'.
C19_WellFormedNamesAreDecoded ==
  AllThreeCalled =>
    \A i \in 2..Len(codec.filename) :
      (Positions(codec.filename, ".") = {i}) =>
        LET n == SubSeq(codec.filename, 1, i - 1)
            e == SubSeq(codec.filename, i + 1, Len(codec.filename))
        IN /\ codec.ext = [k \in 1..Len(e) |-> LowerChar(e[k])]
           /\ \A j \in 2..Len(n) :
                SuffixAt(n, j) =>
                  /\ codec.base = SubSeq(n, 1, j - 1)
                  /\ codec.version = ParseInt(SubSeq(n, j + 1, Len(n)))
           /\ (\A j \in 1..Len(n) : ~SuffixAt(n, j)) =>
                /\ codec.base = n
                /\ codec.version = 0

\* a name with a two-digit version and an upper-case extension has been decoded
C19_Witness ==
  /\ AllThreeCalled
  /\ Positions(codec.filename, ".") = {Len(codec.filename) - 1}
  /\ codec.filename[Len(codec.filename)] = "J"
  /\ codec.ext = <<"j">>
  /\ codec.base = <<"a">>
  /\ codec.version > 9

(***************************************************************************)
(* Directory listings.                                                     *)
(***************************************************************************)
AllowList ==
  { <<"j","p","g">>, <<"j","p","e","g">>, <<"p","n","g">>, <<"g","i","f">>,
    <<"w","e","b","p">>, <<"h","e","i","c">>, <<"h","e","i","f">>,
    <<"m","p","4">>, <<"m","o","v">>, <<"a","v","i">>, <<"m","k","v">>,
    <<"w","e","b","m">>, <<"3","g","p">> }

\* what follows the last '.' of a name, in lower case
LowerExtension(name) ==
  LET i == SetMax(Positions(name, ".") \cup {0})
      e == SubSeq(name, i + 1, Len(name))
  IN IF i = 0 THEN << >> ELSE [k \in 1..Len(e) |-> LowerChar(e[k])]

\* listing holds, in the order of entries, the entries whose extension is allowed
KeepsAllowedInOrder(listing, entries) ==
  /\ Range(listing) = {n \in Range(entries) : LowerExtension(n) \in AllowList}
  /\ \A i, j \in 1..Len(listing) :
       i < j => \E a, b \in 1..Len(entries) :
                  a < b /\ entries[a] = listing[i] /\ entries[b] = listing[j]

ListingFor(l, path) ==
  CASE path = cameraFolder -> l.cam
    [] path = pendingFolder -> l.pen
    [] path = completedFolder -> l.com

\* C20: each listing of a pass holds, in the order the folder was read, exactly
\* the names whose lower-cased extension is in the allow-list, and is empty when
\* the read failed; and the pass goes on: when it has processed its listings,
\* every name of the three filtered listings has its record, also when one read
\* failed.
C20_ListingsAreFilteredAndFailuresTolerated ==
  load.pc # "idle" =>
    /\ \A r \in 1..Len(load.read) :
         IF load.read[r].ok
         THEN KeepsAllowedInOrder(ListingFor(load, load.read[r].path), load.read[r].entries)
         ELSE ListingFor(load, load.read[r].path) = << >>
    /\ load.pc = "done" =>
         \A n \in Range(cameraFiles(load)) \cup Range(pendingFiles(load))
                    \cup Range(completedFiles(load)) :
           getBaseFilename(n) \in DOMAIN store

\* the read of the pending folder, which holds a file, failed, and the pass
\* has processed the camera listing, which kept a name with an upper-case
\* extension
C20_Witness ==
  /\ load.pc = "done"
  /\ ~load.read[2].ok
  /\ Present(fs, pendingFolder) # {}
  /\ load.pen = << >>
  /\ \E n \in Range(load.cam) :
       /\ getFileExtension(n) # SubSeq(n, Len(n) - 2, Len(n))
       /\ getBaseFilename(n) \in DOMAIN store

(***************************************************************************)
(* Order of the writes and of the file calls.                              *)
(***************************************************************************)
InFlight(t) == t.pc \in {"list", "copy", "delete"}

\* the path fields the branch of a call is to write
NewPathsWritten(rec, t) ==
  CASE t.target = "pending" ->
         /\ rec.pendingPath = MkPath(pendingFolder, t.photo.originalName)
         /\ rec.completedPath = Undefined
    [] t.kind = "completedToCamera" -> rec.completedPath = Undefined
    [] t.kind = "pendingToCamera" -> rec.pendingPath = Undefined
    [] t.kind = "cameraToCompleted" ->
         rec.completedPath = MkPath(completedFolder, t.photo.originalName)
    [] t.kind = "pendingToCompleted" ->
         /\ rec.completedPath = MkPath(completedFolder, t.photo.originalName)
         /\ rec.pendingPath = Undefined

\* C21: while a status-changing transition is in flight, from before its first
\* file call (listing, copy or delete) on, the record already has the new
\* status and the new path fields.
C21_StoreIsWrittenBeforeFileCalls ==
  InFlight(tr) =>
    /\ store[tr.photo.id].status = tr.target
    /\ NewPathsWritten(store[tr.photo.id], tr)

\* a transition has written the record and has made no file call yet
C21_Witness ==
  /\ InFlight(tr)
  /\ tr.io = << >>
  /\ tr.before.store[tr.photo.id].status # tr.target
  /\ store[tr.photo.id].status = tr.target

(***************************************************************************)
(* What the transitions leave in the folders.                              *)
(***************************************************************************)
\* C22: when a pending -> camera transition returns success, no file with the
\* record's id and extension remains in the pending folder, version siblings
\* of the file named by pendingPath included.
C22_RevertClearsPendingSiblings ==
  (tr.pc = "returned" /\ tr.kind = "pendingToCamera" /\ tr.success)
  => Siblings(fs[pendingFolder], tr.photo) = {}

(***************************************************************************)
(* Latest-version resolution.                                              *)
(***************************************************************************)
\* the files of a listing that have the photo's base name and extension
MatchingAt(files, originalName) ==
  {k \in 1..Len(files) :
     /\ getBaseFilename(files[k]) = getBaseFilename(originalName)
     /\ getFileExtension(files[k]) = getFileExtension(originalName)}

MaxVersion(files, K) == SetMax({getVersionNumber(files[k]) : k \in K} \cup {0})

\* C23: the latest version is the first file in scan order among the matching
\* files of maximum version; and when no matching file has a non-zero version,
\* it is the unsuffixed original name, whatever the scan order and whatever
\* other names of version 0 the listing holds.
C23_LatestIsFirstOfMaxElseOriginal ==
  resolve.done =>
    LET K == MatchingAt(resolve.files, resolve.originalName)
        top == MaxVersion(resolve.files, K)
    IN IF top > 0
       THEN \E k \in K :
              /\ getVersionNumber(resolve.files[k]) = top
              /\ \A j \in K : getVersionNumber(resolve.files[j]) = top => k <= j
              /\ resolve.latest = resolve.files[k]
       ELSE resolve.latest = resolve.originalName

(***************************************************************************)
(* A pass and a transition in flight together.  loadPhotos is called        *)
(* un-awaited by the mount effect (main.tsx line 36) and the routes are     *)
(* rendered while it runs, so a transition can be called during a pass; the *)
(* service does not hold back a loadPhotos called during a transition.      *)
(***************************************************************************)
\* a transition is called on a record of the collection while a pass is in flight
SetStatusDuringLoad ==
  /\ Mounted
  /\ load.pc # "idle" /\ tr.pc = "idle" /\ batch.pc = "idle"
  /\ ops < MaxOps /\ ops' = ops + 1
  /\ \E target \in {"pending", "camera", "completed"} :
     \E id \in DOMAIN store : Invoke(store[id], target, TRUE)
  /\ load' = [load EXCEPT !.alone = FALSE]
  /\ UNCHANGED <<fs, batch, jobs, thumbnailQueue, faults,
               mediaPermissionsGranted, codec, resolve, tr2, load2>>

\* loadPhotos is called while a transition is in flight
LoadDuringTransition ==
  /\ Mounted
  /\ load.pc = "idle" /\ tr.pc # "idle" /\ batch.pc = "idle"
  /\ ops < MaxOps /\ ops' = ops + 1
  /\ ReadFolders(FALSE)
  /\ UNCHANGED <<fs, store, tr, batch, jobs, thumbnailQueue,
               mediaPermissionsGranted, codec, resolve, tr2, load2>>

OverlapNames == {<<"a", ".", "j", "p", "g">>, <<"a", "~", "1", ".", "j", "p", "g">>}
OverlapInit ==
  /\ \E S \in SUBSET {p \in Slots : p.name \in OverlapNames} :
       Cardinality(S) <= MaxFiles /\ fs = InitialFolders(S)
  /\ store = << >>
  /\ load = IdleLoad
  /\ tr = IdleTr
  /\ batch = IdleBatch
  /\ jobs = << >>
  /\ thumbnailQueue = 0
  /\ ops = 0
  /\ faults = 0
  /\ mediaPermissionsGranted = "true"
  /\ codec = IdleCodec
  /\ resolve = IdleResolve
  /\ tr2 = IdleTr
  /\ load2 = IdleLoad

OverlapNext ==
  \/ LoadStart \/ LoadCameraFile \/ LoadCameraInsert \/ LoadPendingFile
  \/ LoadCompletedFile \/ LoadCompletedInsert \/ LoadReturn
  \/ StartJob \/ SettleJob \/ ContinueForPhoto
  \/ SetStatusToPending \/ SetStatusToCamera \/ SetStatusToCompleted
  \/ SetStatusDuringLoad \/ LoadDuringTransition
  \/ TrList \/ TrCopy \/ TrDelete \/ TrReturn

OverlapSpec == OverlapInit /\ [][OverlapNext]_vars

(***************************************************************************)
(* Two transitions in flight together.  The routes call the transitions    *)
(* without waiting for the one before, so a second call can be made on the *)
(* record of a call in flight, with the photo the first caller passed or   *)
(* with the record as the first call's update left it.                     *)
(***************************************************************************)
SecondInvoke ==
  /\ Mounted
  /\ tr.pc \in {"list", "copy", "delete"}
  /\ tr2.pc = "idle" /\ load.pc = "idle" /\ batch.pc = "idle"
  /\ ops < MaxOps /\ ops' = ops + 1
  /\ \E target \in {"pending", "camera", "completed"} :
     \E photo \in {tr.photo, store[tr.photo.id]} :
       LET kind == Kind(photo, target)
           t == [IdleTr EXCEPT !.photo = photo, !.kind = kind, !.target = target,
                               !.byUser = TRUE,
                               !.before = [store |-> store, fs |-> fs]]
       IN IF kind = "same"
          THEN tr2' = Returned(t, TRUE, "") /\ UNCHANGED store
          ELSE IF kind = "invalid"
          THEN tr2' = Returned(t, FALSE, InvalidError(target)) /\ UNCHANGED store
          ELSE IF MissingPath(photo, kind)
          THEN tr2' = Returned(t, FALSE, MissingPathError(kind)) /\ UNCHANGED store
          ELSE /\ store' = StoreUpdate(store, photo.id, Optimistic(store[photo.id], photo, kind))
               /\ tr2' = [t EXCEPT !.pc = FirstStep(kind),
                                    !.k = IF FirstStep(kind) = "delete" THEN 1 ELSE 0]
  /\ UNCHANGED <<fs, load, tr, batch, jobs, thumbnailQueue, faults,
               mediaPermissionsGranted, codec, resolve, load2>>

\* the catch block of the second call
SecondFail(t, what) ==
  /\ store' = Rollback(store, t.photo)
  /\ tr2' = Returned(t, FALSE, ErrorText(t, what))

SecondList ==
  /\ tr2.pc = "list"
  /\ \E ok \in Luck : \E entries \in Orders(Present(fs, pendingFolder)) :
       /\ Spend(ok)
       /\ tr2' = [tr2 EXCEPT !.pc = "copy", !.files = readDirectory(entries, ok),
                             !.io = Append(tr2.io, IoEntry("readdir", MkPath(pendingFolder, << >>),
                                                           Undefined, ok))]
  /\ UNCHANGED <<fs, store, load, tr, batch, jobs, thumbnailQueue, ops,
               mediaPermissionsGranted, codec, resolve, load2>>

SecondCopy ==
  /\ tr2.pc = "copy"
  /\ LET from == CopySource(tr2)
         to == CopyTarget(tr2)
     IN \E ioOk \in Luck :
          LET ok == ioOk /\ Exists(fs, from)
              t == [tr2 EXCEPT !.io = tr2.io \o <<IoEntry("copy", from, to, ok)>>
                                      \o (IF ok THEN <<IoEntry("scan", to, Undefined, TRUE)>>
                                          ELSE << >>)]
          IN /\ Spend(ioOk)
             /\ IF ok
                THEN /\ fs' = CopyInFs(fs, from, to)
                     /\ tr2' = AfterCopy(t)
                     /\ UNCHANGED store
                ELSE /\ SecondFail(t, "copy failed")
                     /\ UNCHANGED fs
  /\ UNCHANGED <<load, tr, batch, jobs, thumbnailQueue, ops,
               mediaPermissionsGranted, codec, resolve, load2>>

SecondDelete ==
  /\ tr2.pc = "delete"
  /\ LET path == DeleteList(tr2)[tr2.k]
     IN \E ioOk \in Luck :
          LET ok == ioOk /\ Exists(fs, path)
              t == [tr2 EXCEPT !.io = tr2.io \o <<IoEntry("delete", path, Undefined, ok)>>
                                      \o (IF ok THEN <<IoEntry("scan", path, Undefined, TRUE)>>
                                          ELSE << >>)]
          IN /\ Spend(ioOk)
             /\ IF ok
                THEN /\ fs' = DeleteInFs(fs, path)
                     /\ tr2' = AfterDelete(t)
                     /\ UNCHANGED store
                ELSE /\ SecondFail(t, "delete failed")
                     /\ UNCHANGED fs
  /\ UNCHANGED <<load, tr, batch, jobs, thumbnailQueue, ops,
               mediaPermissionsGranted, codec, resolve, load2>>

SecondReturn ==
  /\ tr2.pc = "returned"
  /\ tr2' = IdleTr
  /\ UNCHANGED <<fs, store, load, tr, batch, jobs, thumbnailQueue, ops, faults,
               mediaPermissionsGranted, codec, resolve, load2>>

RaceNext ==
  \/ LoadStart \/ LoadCameraFile \/ LoadCameraInsert \/ LoadPendingFile
  \/ LoadCompletedFile \/ LoadCompletedInsert \/ LoadReturn
  \/ StartJob \/ SettleJob \/ ContinueForPhoto
  \/ SetStatusToPending \/ SetStatusToCamera \/ SetStatusToCompleted
  \/ TrList \/ TrCopy \/ TrDelete \/ TrReturn
  \/ SecondInvoke \/ SecondList \/ SecondCopy \/ SecondDelete \/ SecondReturn

RaceSpec == OverlapInit /\ [][RaceNext]_vars

(***************************************************************************)
(* Two passes in flight together: loadPhotos called again (lines 348-533)  *)
(* before the call before has returned.  photoCollection.insert of an id   *)
(* that is present is taken to replace the record.                         *)
(***************************************************************************)
SecondReadFolders(alone) ==
  /\ \E okC, okP, okD \in Luck :
       /\ Failures(<<okC, okP, okD>>) <= MaxFaults - faults
       /\ faults' = faults + Failures(<<okC, okP, okD>>)
       /\ \E eC \in Orders(Present(fs, cameraFolder)) :
          \E eP \in Orders(Present(fs, pendingFolder)) :
          \E eD \in Orders(Present(fs, completedFolder)) :
            LET l == [IdleLoad EXCEPT !.alone = alone,
                                      !.read = <<Readdir(cameraFolder, eC, okC),
                                                Readdir(pendingFolder, eP, okP),
                                                Readdir(completedFolder, eD, okD)>>,
                                      !.cam = readDirectory(eC, okC),
                                      !.pen = readDirectory(eP, okP),
                                      !.com = readDirectory(eD, okD)]
                pos == LoopFrom(l, "camera", 1)
            IN load2' = [l EXCEPT !.pc = pos[1], !.i = pos[2]]

SecondLoadStart ==
  /\ Mounted
  /\ load.pc # "idle" /\ load2.pc = "idle"
  /\ ops < MaxOps /\ ops' = ops + 1
  /\ SecondReadFolders(TRUE)
  /\ UNCHANGED <<fs, load, store, tr, batch, jobs, thumbnailQueue,
               mediaPermissionsGranted, codec, resolve, tr2>>

SecondLoadCameraFile ==
  /\ load2.pc = "camera"
  /\ LET filename == cameraFiles(load2)[load2.i]
         baseName == getBaseFilename(filename)
         cameraPath == MkPath(cameraFolder, filename)
         webUri == WebUri(cameraPath)
     IN \E statOk \in Luck :
          LET fileInfo == getFileInfo(fs, cameraPath, statOk)
          IN /\ Spend(statOk)
             /\ IF baseName \in DOMAIN store
                THEN /\ store' = StoreUpdate(store, baseName,
                                             CameraDraft(store[baseName], webUri, cameraPath))
                     /\ load2' = AdvanceLoad(load2, "camera")
                     /\ UNCHANGED <<jobs, thumbnailQueue>>
                ELSE /\ QueueHasRoom
                     /\ LET job == NewJob("await", baseName, webUri, isVideoFile(filename))
                        IN /\ jobs' = Append(jobs, job)
                           /\ thumbnailQueue' = job.id
                           /\ load2' = [load2 EXCEPT !.pc = "cameraWait", !.info = fileInfo,
                                                   !.job = job.id]
                     /\ UNCHANGED store
  /\ UNCHANGED <<fs, load, tr, batch, ops,
               mediaPermissionsGranted, codec, resolve, tr2>>

SecondLoadCameraInsert ==
  /\ load2.pc = "cameraWait"
  /\ \E k \in 1..Len(jobs) :
       /\ jobs[k].id = load2.job
       /\ jobs[k].state = "resolved"
       /\ LET filename == cameraFiles(load2)[load2.i]
              cameraPath == MkPath(cameraFolder, filename)
          IN store' = StoreInsert(store, CameraPhoto(filename, WebUri(cameraPath), cameraPath,
                                                     load2.info, jobs[k].result))
       /\ jobs' = Without(jobs, k)
       /\ thumbnailQueue' = IF thumbnailQueue = jobs[k].id THEN 0 ELSE thumbnailQueue
  /\ load2' = AdvanceLoad(load2, "camera")
  /\ UNCHANGED <<fs, load, tr, batch, ops, faults,
               mediaPermissionsGranted, codec, resolve, tr2>>

SecondLoadPendingFile ==
  /\ load2.pc = "pending"
  /\ QueueHasRoom
  /\ LET filename == pendingFiles(load2)[load2.i]
         baseName == getBaseFilename(filename)
         pendingPath == MkPath(pendingFolder, filename)
         webUri == WebUri(pendingPath)
     IN \E statOk \in Luck :
          LET fileInfo == getFileInfo(fs, pendingPath, statOk)
              st == IF baseName \in DOMAIN store
                    THEN StoreUpdate(store, baseName,
                                     PendingDraft(store[baseName], webUri, pendingPath))
                    ELSE StoreInsert(store, PendingPhoto(filename, webUri, pendingPath, fileInfo))
              photo == st[baseName]
              job == NewJob("forPhoto", photo.id, photo.uri, photo.isVideo)
          IN /\ Spend(statOk)
             /\ store' = st
             /\ jobs' = Append(jobs, job)
             /\ thumbnailQueue' = job.id
  /\ load2' = AdvanceLoad(load2, "pending")
  /\ UNCHANGED <<fs, load, tr, batch, ops,
               mediaPermissionsGranted, codec, resolve, tr2>>

SecondLoadCompletedFile ==
  /\ load2.pc = "completed"
  /\ LET filename == completedFiles(load2)[load2.i]
         baseName == getBaseFilename(filename)
         completedPath == MkPath(completedFolder, filename)
         webUri == WebUri(completedPath)
     IN \E statOk \in Luck :
          LET fileInfo == getFileInfo(fs, completedPath, statOk)
          IN /\ Spend(statOk)
             /\ IF baseName \in DOMAIN store
                THEN /\ store' = StoreUpdate(store, baseName,
                                             CompletedDraft(store[baseName], webUri, completedPath))
                     /\ load2' = AdvanceLoad(load2, "completed")
                     /\ UNCHANGED <<jobs, thumbnailQueue>>
                ELSE /\ QueueHasRoom
                     /\ LET job == NewJob("await", baseName, webUri, isVideoFile(filename))
                        IN /\ jobs' = Append(jobs, job)
                           /\ thumbnailQueue' = job.id
                           /\ load2' = [load2 EXCEPT !.pc = "completedWait", !.info = fileInfo,
                                                   !.job = job.id]
                     /\ UNCHANGED store
  /\ UNCHANGED <<fs, load, tr, batch, ops,
               mediaPermissionsGranted, codec, resolve, tr2>>

SecondLoadCompletedInsert ==
  /\ load2.pc = "completedWait"
  /\ \E k \in 1..Len(jobs) :
       /\ jobs[k].id = load2.job
       /\ jobs[k].state = "resolved"
       /\ LET filename == completedFiles(load2)[load2.i]
              completedPath == MkPath(completedFolder, filename)
          IN store' = StoreInsert(store, CompletedPhoto(filename, WebUri(completedPath),
                                                        completedPath, load2.info, jobs[k].result))
       /\ jobs' = Without(jobs, k)
       /\ thumbnailQueue' = IF thumbnailQueue = jobs[k].id THEN 0 ELSE thumbnailQueue
  /\ load2' = AdvanceLoad(load2, "completed")
  /\ UNCHANGED <<fs, load, tr, batch, ops, faults,
               mediaPermissionsGranted, codec, resolve, tr2>>

SecondLoadReturn ==
  /\ load2.pc = "done"
  /\ load2' = IdleLoad
  /\ UNCHANGED <<fs, load, store, tr, batch, jobs, thumbnailQueue, ops, faults,
               mediaPermissionsGranted, codec, resolve, tr2>>

PassesNext ==
  \/ LoadStart \/ LoadCameraFile \/ LoadCameraInsert \/ LoadPendingFile
  \/ LoadCompletedFile \/ LoadCompletedInsert \/ LoadReturn
  \/ SecondLoadStart \/ SecondLoadCameraFile \/ SecondLoadCameraInsert
  \/ SecondLoadPendingFile \/ SecondLoadCompletedFile \/ SecondLoadCompletedInsert
  \/ SecondLoadReturn
  \/ StartJob \/ SettleJob \/ ContinueForPhoto

PassesSpec == OverlapInit /\ [][PassesNext]_vars

(***************************************************************************)
(* The queue over time.  A decode ends when the element signals load or    *)
(* error (SettleJob), which the service cannot bring about; the timer of   *)
(* the video decode (lines 133-138) fires by itself; a task chained on a   *)
(* settled promise is started by the runtime.                              *)
(***************************************************************************)
\* the timeout callback of generateVideoThumbnail rejects the decode
DecodeTimeout ==
  \E k \in 1..Len(jobs) :
    /\ jobs[k].state = "running"
    /\ jobs[k].isVideo
    /\ jobs' = [jobs EXCEPT ![k].state = TaskSettles(jobs[k].uri, "timeout").state,
                            ![k].outcome = "timeout",
                            ![k].result = TaskSettles(jobs[k].uri, "timeout").result]
    /\ UNCHANGED <<fs, store, load, tr, batch, thumbnailQueue, ops, faults,
                   mediaPermissionsGranted, codec, resolve, tr2, load2>>

\* an image and a video
QueueNames == {<<"a", ".", "j", "p", "g">>, <<"b", ".", "M", "P", "4">>}
QueueInit ==
  /\ \E S \in SUBSET {p \in Slots : p.name \in QueueNames} :
       Cardinality(S) <= MaxFiles /\ fs = InitialFolders(S)
  /\ store = << >>
  /\ load = IdleLoad
  /\ tr = IdleTr
  /\ batch = IdleBatch
  /\ jobs = << >>
  /\ thumbnailQueue = 0
  /\ ops = 0
  /\ faults = 0
  /\ mediaPermissionsGranted = "true"
  /\ codec = IdleCodec
  /\ resolve = IdleResolve
  /\ tr2 = IdleTr
  /\ load2 = IdleLoad

QueueNext ==
  \/ LoadStart \/ LoadCameraFile \/ LoadCameraInsert \/ LoadPendingFile
  \/ LoadCompletedFile \/ LoadCompletedInsert \/ LoadReturn
  \/ StartJob \/ SettleJob \/ DecodeTimeout \/ ContinueForPhoto

QueueSpec ==
  /\ QueueInit
  /\ [][QueueNext]_vars
  /\ WF_vars(StartJob)
  /\ WF_vars(DecodeTimeout)

(***************************************************************************)
(* A pass called right after a transition has returned: the result of the  *)
(* transition is still with its caller.                                    *)
(***************************************************************************)
LoadAfterTransition ==
  /\ Mounted
  /\ tr.pc = "returned" /\ tr.byUser
  /\ load.pc = "idle" /\ load2.pc = "idle" /\ tr2.pc = "idle" /\ batch.pc = "idle"
  /\ jobs = << >>
  /\ ops < MaxOps /\ ops' = ops + 1
  /\ ReadFolders(TRUE)
  /\ UNCHANGED <<fs, store, tr, batch, jobs, thumbnailQueue,
               mediaPermissionsGranted, codec, resolve, tr2, load2>>

FollowNext ==
  \/ LoadStart \/ LoadCameraFile \/ LoadCameraInsert \/ LoadPendingFile
  \/ LoadCompletedFile \/ LoadCompletedInsert \/ LoadReturn
  \/ StartJob \/ SettleJob \/ ContinueForPhoto
  \/ SetStatusToPending \/ SetStatusToCamera \/ SetStatusToCompleted
  \/ TrList \/ TrCopy \/ TrDelete \/ TrReturn
  \/ LoadAfterTransition

FollowSpec == OverlapInit /\ [][FollowNext]_vars

(***************************************************************************)
(* Order of the thumbnail jobs.                                            *)
(***************************************************************************)
\* C24: thumbnail jobs start in the order in which they were enqueued: when a
\* job starts, every job enqueued before it has started already and no job
\* enqueued after it has, whatever the outcome of the earlier jobs.
C24_JobsStartInFifoOrder ==
  [][\A k \in 1..Len(jobs) :
       (/\ Len(jobs') = Len(jobs)
        /\ jobs[k].state = "queued"
        /\ jobs'[k].state = "running")
       => /\ \A j \in 1..(k - 1) : jobs[j].state # "queued"
          /\ \A j \in (k + 1)..Len(jobs) : jobs[j].state = "queued"]_vars

\* the second job has started after the first one failed or timed out
C24_Witness ==
  /\ Len(jobs) = 2
  /\ jobs[1].outcome \in {"error", "timeout"}
  /\ jobs[2].state = "running"

(***************************************************************************)
(* Order of the record writes of one pass.                                 *)
(***************************************************************************)
\* the loop a pass stands in: 1 camera, 2 pending, 3 completed, 4 past the loops
LoopNumber(pc) ==
  CASE pc \in {"camera", "cameraWait"} -> 1
    [] pc = "pending" -> 2
    [] pc \in {"completed", "completedWait"} -> 3
    [] pc = "done" -> 4
    [] OTHER -> 0
LoopListing(l, n) ==
  CASE n = 1 -> cameraFiles(l)
    [] n = 2 -> pendingFiles(l)
    [] n = 3 -> completedFiles(l)
    [] OTHER -> << >>
LoopStatus(n) == CASE n = 1 -> "camera" [] n = 2 -> "pending" [] OTHER -> "completed"

\* C25: within one pass the loops run in the order camera, pending, completed:
\* a step of the pass never goes back to an earlier loop, leaves a loop only
\* after its last file and skips only empty listings; within a loop it moves
\* from one file to the next one of the listing; and a record written by the
\* step is the record of the file the loop stands at, written with the status
\* of that loop.
C25_LoopsWriteInFolderOrderOneFileAtATime ==
  [][(load.pc \notin {"idle", "done"} /\ load' # load)
     => LET n == LoopNumber(load.pc)
            m == LoopNumber(load'.pc)
            files == LoopListing(load, n)
            id == getBaseFilename(files[load.i])
        IN /\ <<load'.cam, load'.pen, load'.com>> = <<load.cam, load.pen, load.com>>
           /\ load.i \in 1..Len(files)
           /\ m >= n
           /\ m = n => load'.i \in {load.i, load.i + 1}
           /\ m > n => /\ load.i = Len(files)
                       /\ \A x \in (n + 1)..(m - 1) : LoopListing(load, x) = << >>
                       /\ m < 4 => load'.i = 1
           /\ (load'.i = load.i /\ m = n) => store' = store
           /\ store' # store
              => /\ \A other \in DOMAIN store \ {id} :
                      other \in DOMAIN store' /\ store'[other] = store[other]
                 /\ DOMAIN store' = DOMAIN store \cup {id}
                 /\ store'[id].status = LoopStatus(n)]_vars

\* a pass has written the same record from the pending listing and then from
\* the completed listing
C25_Witness ==
  /\ load.pc = "done"
  /\ pendingFiles(load) # << >>
  /\ completedFiles(load) # << >>
  /\ getBaseFilename(pendingFiles(load)[1]) = getBaseFilename(completedFiles(load)[1])
  /\ store[getBaseFilename(completedFiles(load)[1])].status = "completed"
  /\ store[getBaseFilename(completedFiles(load)[1])].pendingPath
       = MkPath(pendingFolder, pendingFiles(load)[1])

(***************************************************************************)
(* A pass that overlaps a transition, and the pass after it.               *)
(***************************************************************************)
\* the ids of the supported files a folder holds
IdsIn(f, dir) == {getBaseFilename(n) : n \in {m \in Present(f, dir) : isSupportedFile(m)}}
IdsOnDisk(f) == IdsIn(f, cameraFolder) \cup IdsIn(f, pendingFolder) \cup IdsIn(f, completedFolder)
\* the status that the folders give an id: the folder of highest precedence
\* that holds a file of it
HoldingStatus(f, id) ==
  IF id \in IdsIn(f, completedFolder) THEN "completed"
  ELSE IF id \in IdsIn(f, pendingFolder) THEN "pending"
  ELSE "camera"
Disagrees(st, f, id) ==
  id \in DOMAIN st /\ id \in IdsOnDisk(f) /\ st[id].status # HoldingStatus(f, id)
ReadsSucceeded(l) == \A k \in 1..Len(l.read) : l.read[k].ok

CopiedThenDeleteFailed(t) ==
  \E c, d \in 1..Len(t.io) :
    /\ c < d
    /\ t.io[c].call = "copy" /\ t.io[c].ok
    /\ t.io[d].call = "delete" /\ ~t.io[d].ok
DeletedBy(t) == {t.io[k].from : k \in {j \in 1..Len(t.io) : t.io[j].call = "delete" /\ t.io[j].ok}}

\* C27: when the copy of a pending -> completed transition succeeded and a
\* later delete failed, the call returns {success: false} with an error, the
\* record has status pending again, the copy is in the completed folder, the
\* pending files deleted before the failure are still gone, and the failed
\* delete is the last platform call of the transition.
C27_FailedDeleteLeavesCopyAndDeletions ==
  (/\ tr.pc = "returned"
   /\ tr.kind = "pendingToCompleted"
   /\ CopiedThenDeleteFailed(tr))
  => /\ ~tr.success
     /\ tr.error # ""
     /\ store[tr.photo.id].status = "pending"
     /\ store[tr.photo.id].pendingPath = tr.photo.pendingPath
     /\ Exists(fs, MkPath(completedFolder, tr.photo.originalName))
     /\ \A p \in DeletedBy(tr) : ~Exists(fs, p)
     /\ tr.io[Len(tr.io)].call = "delete" /\ ~tr.io[Len(tr.io)].ok

\* the second delete failed after the copy and the first delete had succeeded
C27_Witness ==
  /\ tr.pc = "returned"
  /\ tr.kind = "pendingToCompleted"
  /\ CopiedThenDeleteFailed(tr)
  /\ DeletedBy(tr) # {}
  /\ tr.before.store[tr.photo.id].status = "pending"

(***************************************************************************)
(* The media-index notification.                                           *)
(***************************************************************************)
ScanFailed(t) == \E k \in 1..Len(t.io) : t.io[k].call = "scan" /\ ~t.io[k].ok
\* the path that was copied to, or deleted, by a call of the log
Touched(e) == IF e.call = "copy" THEN e.to ELSE e.from

\* C28: a transition of which a scanFile failed returns as it would have
\* without that failure: success, with the record at the target status, unless
\* a copy or a delete itself failed; and in the calls of a transition each
\* successful copy and each successful delete is directly followed by one
\* scanFile of the path copied to or deleted, scanFile being called nowhere else.
C28_ScanFailureIsHarmlessAndScanFollowsEachChange ==
  /\ (tr.pc = "returned" /\ ScanFailed(tr))
     => /\ tr.success = ~SomeFileOperationFailed(tr)
        /\ tr.success => store[tr.photo.id].status = tr.target
  /\ \A k \in 1..Len(tr.io) :
       /\ (tr.io[k].call \in {"copy", "delete"} /\ tr.io[k].ok)
          => /\ k < Len(tr.io)
             /\ tr.io[k + 1].call = "scan"
             /\ tr.io[k + 1].from = Touched(tr.io[k])
       /\ tr.io[k].call = "scan"
          => /\ k > 1
             /\ tr.io[k - 1].call \in {"copy", "delete"}
             /\ tr.io[k - 1].ok

\* a transition has returned success although the scanFile after its copy failed
C28_Witness ==
  /\ tr.pc = "returned"
  /\ tr.success
  /\ \E k \in 1..Len(tr.io) :
       tr.io[k].call = "scan" /\ ~tr.io[k].ok /\ tr.io[k - 1].call = "copy"

(***************************************************************************)
(* completed -> pending.                                                   *)
(***************************************************************************)
\* C29: when a completed -> pending transition has returned success, the
\* pending folder holds under originalName the content that the completed
\* file had when the call was made, the completed file does not exist, and the
\* record has status pending, pendingPath naming that pending file and no
\* completedPath.
C29_UncompleteMovesTheFileBack ==
  (tr.pc = "returned" /\ tr.kind = "completedToPending" /\ tr.success)
  => LET pendingPath == MkPath(pendingFolder, tr.photo.originalName)
         rec == store[tr.photo.id]
     IN /\ Exists(tr.before.fs, tr.photo.completedPath)
        /\ FileAt(fs, pendingPath) = FileAt(tr.before.fs, tr.photo.completedPath)
        /\ ~Exists(fs, tr.photo.completedPath)
        /\ rec.status = "pending"
        /\ rec.pendingPath = pendingPath
        /\ rec.completedPath = Undefined

\* a completed -> pending transition has returned success where the pending
\* folder held another content under originalName before the call
C29_Witness ==
  /\ tr.pc = "returned"
  /\ tr.kind = "completedToPending"
  /\ tr.success
  /\ Exists(tr.before.fs, MkPath(pendingFolder, tr.photo.originalName))
  /\ FileAt(tr.before.fs, MkPath(pendingFolder, tr.photo.originalName))
       # FileAt(tr.before.fs, tr.photo.completedPath)

(***************************************************************************)
(* The camera folder is only read.                                         *)
(***************************************************************************)
Writable == {pendingFolder, completedFolder}

\* C30: no step of a pass, of a transition or of completeAllPending changes
\* what the camera folder holds, and every copy destination and every delete
\* target of a transition, whether the call succeeded or not, is a path of the
\* pending or of the completed folder.
C30_CameraFolderIsNeverWritten ==
  [][/\ fs'[cameraFolder] = fs[cameraFolder]
     /\ \A k \in 1..Len(tr'.io) :
          /\ tr'.io[k].call = "copy" => tr'.io[k].to.dir \in Writable
          /\ tr'.io[k].call = "delete" => tr'.io[k].from.dir \in Writable]_vars

\* a transition has copied a file out of the camera folder and returned
\* success, the camera file being where it was
C30_Witness ==
  /\ tr.pc = "returned"
  /\ tr.kind = "cameraToCompleted"
  /\ tr.success
  /\ Exists(fs, tr.photo.cameraPath)
  /\ tr.photo.cameraPath.dir = cameraFolder
  /\ \E k \in 1..Len(tr.io) : tr.io[k].call = "copy" /\ tr.io[k].ok

(***************************************************************************)
(* A stat that fails during a pass.                                        *)
(***************************************************************************)
\* a step of one of the three loops in which Filesystem.stat threw
StatFailsInStep ==
  load.pc \in {"camera", "pending", "completed"} /\ load' # load /\ faults' = faults + 1

\* C31: when the stat of a file fails in a loop of a pass, the file information
\* used for that file is the default (size 0, the current time): the record
\* inserted for it by the pending loop carries it, and so does the insert that
\* the camera and completed loops make after their thumbnail; and the pass goes
\* on with the next file of the listings (or waits for the thumbnail of this
\* one) instead of ending.
C31_FailedStatGivesDefaultAndPassGoesOn ==
  [][/\ StatFailsInStep
        => LET n == LoopNumber(load.pc)
               filename == LoopListing(load, n)[load.i]
               id == getBaseFilename(filename)
               next == LoopFrom(load, load.pc, load.i + 1)
           IN /\ (n = 2 /\ id \notin DOMAIN store)
                 => /\ id \in DOMAIN store'
                    /\ store'[id].size = StatDefault.size
                    /\ store'[id].modifiedTime = StatDefault.modifiedTime
              /\ (n # 2 /\ id \notin DOMAIN store)
                 => /\ load'.pc \in {"cameraWait", "completedWait"}
                    /\ load'.i = load.i
                    /\ load'.info = StatDefault
              /\ id \in DOMAIN store => <<load'.pc, load'.i>> = next
              /\ n = 2 => <<load'.pc, load'.i>> = next
     /\ (load.pc \in {"cameraWait", "completedWait"} /\ load' # load)
        => LET n == LoopNumber(load.pc)
               id == getBaseFilename(LoopListing(load, n)[load.i])
           IN /\ store'[id].size = load.info.size
              /\ store'[id].modifiedTime = load.info.modifiedTime
              /\ <<load'.pc, load'.i>>
                   = LoopFrom(load, LoopStatus(n), load.i + 1)]_vars

\* a pass has ended whose pending listing had two files of different ids: the
\* stat of the first failed and its record has the default, the second file
\* was processed after it and its record has the size of the file
C31_Witness ==
  /\ load.pc = "done"
  /\ faults = 1
  /\ ReadsSucceeded(load)
  /\ Len(pendingFiles(load)) = 2
  /\ LET a == getBaseFilename(pendingFiles(load)[1])
         b == getBaseFilename(pendingFiles(load)[2])
     IN /\ a # b
        /\ store[a].size = StatDefault.size
        /\ store[a].status = "pending"
        /\ store[b].size = FileAt(fs, MkPath(pendingFolder, pendingFiles(load)[2]))

(***************************************************************************)
(* Size and modification time of a record.                                 *)
(***************************************************************************)
\* C32: when a pass whose platform calls all succeeded has processed its
\* listings, every record of a listed id has the size and the modification
\* time of the file named by the path field of its status.
C32_MetadataIsOfTheAuthoritativeFile ==
  (load.pc = "done" /\ faults = 0 /\ tr.pc = "idle" /\ batch.pc = "idle")
  => \A id \in ListedIds(load.cam) \cup ListedIds(load.pen) \cup ListedIds(load.com) :
       LET rec == store[id]
           p == PathField(rec, rec.status)
       IN /\ rec.size = StatOf(fs, p).size
          /\ rec.modifiedTime = StatOf(fs, p).modifiedTime

(***************************************************************************)
(* Two transitions on one record.                                          *)
(***************************************************************************)
BothReturned ==
  /\ tr.pc = "returned" /\ tr2.pc = "returned"
  /\ tr.io # << >> /\ tr2.io # << >>
  /\ tr.photo.id = tr2.photo.id

\* C33: when two overlapping transitions on one record have both returned,
\* one with success and one with failure, the record has the status that the
\* successful one wrote.
C33_RollbackSparesTheSuccessfulTransition ==
  BothReturned
  => /\ (tr.success /\ ~tr2.success) => store[tr.photo.id].status = tr.target
     /\ (tr2.success /\ ~tr.success) => store[tr.photo.id].status = tr2.target

(***************************************************************************)
(* Inserts of the passes.                                                  *)
(***************************************************************************)
\* a pass inserts after the await of its thumbnail: the id it inserts
InsertedAfterAwait(l) ==
  getBaseFilename(LoopListing(l, LoopNumber(l.pc))[l.i])

\* C34: whenever a pass calls insert, after the thumbnail it awaited in the
\* camera or in the completed loop, the collection holds no record of the id
\* inserted, also when another pass is in flight.
C34_InsertOnlyForAbsentIds ==
  [][/\ (load.pc \in {"cameraWait", "completedWait"} /\ load' # load)
        => InsertedAfterAwait(load) \notin DOMAIN store
     /\ (load2.pc \in {"cameraWait", "completedWait"} /\ load2' # load2)
        => InsertedAfterAwait(load2) \notin DOMAIN store]_vars

(***************************************************************************)
(* Every job gets its turn.                                                *)
(***************************************************************************)
\* the task of this id is chained on the queue and has not settled
Unsettled(id) ==
  \E k \in 1..Len(jobs) : jobs[k].id = id /\ jobs[k].state \in {"queued", "running"}

\* C35: every task chained on the queue, of an image or of a video, settles
\* in the end, so that the tasks chained behind it start, without relying on
\* the decoded element to signal load or error.
C35_EveryJobSettles ==
  \A id \in JobIds : Unsettled(id) ~> ~Unsettled(id)

(***************************************************************************)
(* A pass after a successful transition.                                   *)
(***************************************************************************)
\* the record of the photo was in sync with the folders when the call was made:
\* it is the photo passed, its status is the folder of highest precedence
\* holding a file of its id, the path field of its status names a file, and
\* besides the camera folder only the folder of its status holds files of its id
InSync(before, photo) ==
  /\ photo.id \in DOMAIN before.store
  /\ before.store[photo.id] = photo
  /\ photo.id \in IdsOnDisk(before.fs)
  /\ photo.status = HoldingStatus(before.fs, photo.id)
  /\ Exists(before.fs, PathField(photo, photo.status))
  /\ \A d \in {pendingFolder, completedFolder} :
       photo.id \in IdsIn(before.fs, d) => d = FolderOf(photo.status)

\* C36: when a transition called alone on a record in sync with the folders
\* has returned success, and a pass called right after it, alone and with
\* successful directory reads, has processed its listings, the record has the
\* status that was the transition's target.
C36_PassKeepsTheTargetStatus ==
  (/\ load.pc = "done" /\ load.alone /\ ReadsSucceeded(load)
   /\ tr.pc = "returned" /\ tr.success
   /\ InSync(tr.before, tr.photo))
  => store[tr.photo.id].status = tr.target

(***************************************************************************)
(* The file of a record that was rolled back.                              *)
(***************************************************************************)
\* a copy or a delete of the call failed and the catch block restored the
\* record from the photo passed, which was the stored record and whose path
\* field for its status named a file when the call was made
RolledBack(t) ==
  /\ t.pc = "returned"
  /\ ~t.success
  /\ SomeFileOperationFailed(t)
  /\ t.photo.id \in DOMAIN t.before.store
  /\ t.before.store[t.photo.id] = t.photo
  /\ Exists(t.before.fs, PathField(t.photo, t.photo.status))

\* C37: after a failed transition has rolled the record back, the path field
\* of the record for the restored status names a file that exists.
C37_RolledBackPathNamesAFile ==
  RolledBack(tr) =>
    /\ store[tr.photo.id].status = tr.photo.status
    /\ Exists(fs, PathField(store[tr.photo.id], store[tr.photo.id].status))

(***************************************************************************)
(* Records of which the listings of a pass hold no file.                   *)
(***************************************************************************)
\* the fields of a record that tell where its file is
Whereabouts(rec) ==
  <<rec.status, rec.cameraPath, rec.pendingPath, rec.completedPath, rec.uri>>

\* C38: no step of a pass, from the reading of the folders to the return,
\* removes or changes the status, the paths or the uri of a record whose id
\* no filename of the pass's three listings gives.
C38_PassLeavesUnlistedRecordsAlone ==
  [][load' # load
     => LET l == IF load.pc = "idle" THEN load' ELSE load
        IN \A id \in DOMAIN store \ IdsListed(l) :
             /\ id \in DOMAIN store'
             /\ Whereabouts(store'[id]) = Whereabouts(store[id])]_vars

\* a pass with successful directory reads has processed its listings while the
\* collection held a record of which no folder holds a file any more
C38_Witness ==
  /\ load.pc = "done"
  /\ ReadsSucceeded(load)
  /\ \E id \in DOMAIN store :
       /\ id \notin IdsListed(load)
       /\ id \notin IdsOnDisk(fs)
       /\ store[id].status = "camera"
       /\ ~Exists(fs, store[id].pendingPath)

(***************************************************************************)
(* A write-back that comes after the record was changed.                   *)
(***************************************************************************)
\* C39: the step in which generatedThumbnailForPhoto continues after its job
\* keeps every field of the record but the thumbnail as the collection holds
\* it at that moment, whatever a transition or a pass wrote to the record
\* since the job was enqueued.
C39_WriteBackKeepsNewerFields ==
  [][\A k \in 1..Len(jobs) :
       (/\ jobs[k].kind = "forPhoto"
        /\ jobs[k].state = "resolved"
        /\ jobs[k].photoId \in DOMAIN store
        /\ jobs' = Without(jobs, k))
       => LET id == jobs[k].photoId
          IN /\ id \in DOMAIN store'
             /\ store'[id] = [store[id] EXCEPT !.thumbnail = store'[id].thumbnail]]_vars

\* a transition was called on a record that the pending loop had inserted and
\* whose thumbnail job had not written back: the record has the transition's
\* target status and path, and the thumbnail has been written since
C39_Witness ==
  /\ tr.pc # "idle"
  /\ tr.target # "pending"
  /\ tr.photo.id \in DOMAIN tr.before.store
  /\ tr.before.store[tr.photo.id].status = "pending"
  /\ tr.before.store[tr.photo.id].thumbnail = NoThumbnail
  /\ store[tr.photo.id].thumbnail # NoThumbnail
  /\ store[tr.photo.id].status = tr.target
  /\ store[tr.photo.id].uri = tr.before.store[tr.photo.id].uri

====
